---- MODULE Spec2Model ----
(***************************************************************************)
(* Verification model of gccszs/disk-cleaner.                              *)
(*                                                                         *)
(* Part 1  ConcurrentScanner.scan   (src/diskcleaner/optimization/scan.py) *)
(*         specification Spec                                              *)
(* Part 2  find_duplicates of the core and of the optimized finder         *)
(*         specification DupSpec                                           *)
(* Part 3  SafetyChecker.verify_file             specification SafetySpec  *)
(* Part 4  BatchDeleter.delete_with_progress     specification DeleteSpec  *)
(* Part 5  delete_with_progress called again, SmartDeleter.delete_file     *)
(*         specification RedeleteSpec                                      *)
(* Part 6  AsyncDeleter.delete_async             specification AsyncSpec   *)
(* Part 7  IncrementalCache and CacheManager     specification CacheSpec   *)
(* Part 8  DirectoryScanner.scan_incremental     specification IncSpec     *)
(* Part 9  HashCache                             specification HashSpec    *)
(* Part 10 ParallelHasher.hash_files_parallel                              *)
(*         specifications ParSpec, ParFairSpec                             *)
(* Part 11 DeletionManager.delete, asynchronous  specification MgrSpec     *)
(* Part 12 DeletionManager.delete by strategy    specification StrategySpec *)
(* Part 13 InteractiveCleanupUI.confirm_and_cleanup  specification UiSpec  *)
(* Part 14 ConcurrentScanner.scan of an excluded root                      *)
(*         specification RootScanSpec                                      *)
(* Part 15 the walk of a tree with symbolic links  specification WalkSpec  *)
(* Part 16 ConcurrencyManager                    specification ManagerSpec *)
(* Part 17 MemoryMonitor.get_optimal_workers     specification MonitorSpec *)
(* Part 18 find_duplicates on many files         specification ManySpec    *)
(* Part 19 SmartCleanupEngine.analyze            specification ReportSpec  *)
(* Part 20 IncrementalCache.invalidate, clear_all                          *)
(*         specification InvalidateSpec                                    *)
(* Part 21 HashCache.get_or_compute step by step specification ComputeSpec *)
(* Part 22 ConcurrentScanner.scan step by step   specification ReturnSpec  *)
(* Part 23 get_thread_pool from several threads  specification RaceSpec    *)
(* Part 24 scan_incremental called twice         specification TwiceSpec   *)
(*                                                                         *)
(* scan.py imports the module `queue` and uses the names Queue and Empty   *)
(* unqualified; they are read here as queue.Queue and queue.Empty of the   *)
(* standard library (a bounded FIFO with an unfinished-task counter).      *)
(***************************************************************************)
EXTENDS Integers, Sequences, FiniteSets, TLC

(***************************************************************************)
(* Bounds of the model.                                                    *)
(***************************************************************************)
\* largest number of filesystem entries below the scanned root
MaxEntries == 3
\* largest ConcurrentScanner.max_workers (a constructor argument) tried
MaxWorkers == 2
\* ConcurrentScanner.queue_size (10000 in the source), scaled down so that a
\* full queue is reachable
queue_size == 1
\* ScanStrategy.max_files (50000 by default, set by the caller), scaled down
max_files == 2
\* longest list of files handed to find_duplicates
MaxDupFiles == 4

\* longest list of paths handed to delete_with_progress
MaxDelFiles == 5

\* batch_config: files per batch of the small, medium and large tier
\* (1000, 5000 and 10000 in the source)
SmallCount == 1

MediumCount == 2

LargeCount == 3

\* delete_with_progress: the medium tier starts at this many files, the large
\* tier at this many (5000 and 20000 in the source)
MediumFrom == 4

LargeFrom == 5

\* longest list of paths that is deleted more than once
MaxRedelFiles == 2

\* how often the same list is handed to delete_with_progress
MaxDelCalls == 2

\* how many SmartDeleter.delete_file calls are made
MaxSmartCalls == 1

\* longest list of files handed to delete_async
MaxAsyncFiles == 4

\* delete_async: files per batch (batch_size = 100 in the source)
async_batch_size == 2

\* days that pass while the caches are in use
MaxTime == 1

\* number of paths below the root of an incremental scan
MaxIncPaths == 2

\* number of cache keys the threads use with the HashCache
MaxHashKeys == 3

\* HashCache.max_size (10000 by default), scaled down
hash_max_size == 2

\* longest list of files handed to hash_files_parallel
MaxParFiles == 3

\* ParallelHasher.max_workers (a constructor argument, the CPU count by default)
par_max_workers == 2

\* the files handed to confirm_and_cleanup
MaxUiFiles == 2

\* the symbolic links of the tree that is walked
MaxLinks == 2

\* the pools a ConcurrencyManager constructs
MaxPools == 3

\* MemoryMonitor: the thresholds, the memory in use (tenths of the unit of
\* the threshold) and the worker counts asked about
MaxThresholdMb == 2
MaxUsage == 20
MaxCurrentWorkers == 8

\* the files of a list long enough for the optimized finder to hash in the
\* pool (more than ParallelMin candidates)
ManyDupFiles == 11

\* the files of the lists of every kind that analyze is given
MaxReportFiles == 2

VARIABLES
    \* ---- inputs of one scan call
    tree,          \* the directory tree below the root: [n, kind, parent]
    rootState,     \* "dir" | "missing" | "nolist" : what path.exists/scandir see
    hasMonitor,    \* self.memory_monitor is not None
    max_workers,   \* self.max_workers
    \* ---- shared state of scan()
    work_queue,    \* Queue(maxsize=queue_size): the pending directories, FIFO
    unfinished,    \* Queue.unfinished_tasks: put() adds one, task_done() takes one
    stop_event,    \* threading.Event
    results,       \* the list `results`, aliased by ScanResult.items
    stats,         \* the dict stats: count, errors, size
    \* ---- the seeding (main) thread
    mpc,           \* position of the main thread
    mentries,      \* root entries the seeding loop has still to visit
    mpending,      \* the directory the main thread is putting (0: none)
    result,        \* the ScanResult handed back, or NoResult
    \* ---- the worker threads
    wpc,           \* position of each worker
    wdir,          \* dir_path of each worker (0: none)
    wentries,      \* entries of dir_path each worker has still to visit
    wsub,          \* dir_entries of each worker, still to be put
    \* ---- history, for stating the claims
    stop_causes,   \* why stop_event was set: subset of StopCauses
    dropped,       \* directories a producer gave up enqueueing (queue.Full)
    \* ---- find_duplicates (Part 2)
    dfiles,        \* the list `files` handed to find_duplicates
    dcall,         \* the call made: [finder, strategy, use_parallel], or NoCall
    dout,          \* the list of DuplicateGroup returned
    \* ---- SafetyChecker.verify_file (Part 3)
    sfile,         \* the FileInfo verified: [path, name]
    sconfig,       \* the configuration of the checker
    splatform,     \* platform.system()
    senv,          \* what the probes meet: [open_fails, lsof, writable]
    sverdict,      \* the status returned and the probes invoked, or NoVerdict
    \* ---- BatchDeleter.delete_with_progress (Part 4)
    del_files,     \* the list `files` handed to delete_with_progress
    progress_callback, \* whether a progress callback was given
    present,       \* the paths that exist in the file system
    del_pc,        \* position of the call: idle, loop, return, done
    del_i,         \* start of the next batch (loop variable i)
    success,       \* list `success`
    failed,        \* list `failed`
    cancelled,     \* flag `cancelled`
    total_size,    \* total_size
    attempted,     \* history: the files _delete_batch has taken up, in order
    del_result,    \* the DeleteResult returned, or NoDeleteResult
    \* ---- deleting again, SmartDeleter.delete_file (Part 5)
    present0,      \* history: the paths that existed when the call was entered
    del_calls,     \* history: the calls of delete_with_progress made
    smart_cfg,     \* SmartDeleter: [use_recycle_bin, large_file_threshold]
    smart_env,     \* what SmartDeleter meets: [os_name, send2trash]
    trash,         \* the paths moved to the trash
    smart_log,     \* history: the delete_file calls, [path, existed, ret]
    \* ---- AsyncDeleter.delete_async (Part 6)
    a_files,       \* the list `files`: "ok" or "fail" for each
    a_stop,        \* self.stop_event
    a_pc,          \* position of the generator body
    a_next,        \* batch_id of the submit loop
    a_state,       \* each batch: unsubmitted, queued, running, done, collected
    a_completed,   \* the finished futures as_completed has still to hand over
    a_results,     \* what _delete_batch_async returned for each batch
    a_totals,      \* total_deleted and total_failed
    a_worker,      \* each executor thread: [pc, batch, file, deleted, failed]
    a_gone,        \* the files deleted (positions in the list)
    a_cancel_issued, \* history: cancel() has been called
    a_after,       \* history: files each thread took up after the cancel()
    \* ---- the snapshot caches (Part 7)
    c_impl,        \* which cache is in use: IncrementalCache or CacheManager
    c_ttl,         \* ttl_days of the IncrementalCache, max_age_days of the manager
    c_now,         \* time.time(), in days
    c_memory,      \* IncrementalCache._memory_cache
    c_files,       \* the files of the cache directory, by cache path
    c_put,         \* history: the snapshot last saved for each root
    c_put_here,    \* history: the cache object in use made that save
    c_stored,      \* history: that save wrote its file, undamaged since
    c_got,         \* history: the get just made and what came of it
    \* ---- DirectoryScanner.scan_incremental (Part 8)
    i_cached,      \* cached_snapshot.files, or NoCache
    i_current,     \* what scan_generator yields
    i_deleted,     \* the local list deleted_files
    i_saved,       \* the files of the snapshot handed to save_scan_cache
    i_result,      \* what scan_incremental returned
    \* ---- HashCache (Part 9)
    h_cache,       \* self.cache, the OrderedDict, oldest entry first
    h_lock,        \* the thread that holds self.lock, 0 for none
    h_thread,      \* each thread: [pc, op, key, value]
    h_ret,         \* what the last call of each thread returned
    h_recency,     \* history: the keys held, least recently used first
    h_evicted,     \* history: the key the last insertion pushed out, 0 for none
    \* ---- ParallelHasher.hash_files_parallel (Part 10)
    ph_files,      \* the list `files`: what the hash unit of each file does
    ph_pc,         \* position of hash_files_parallel
    ph_state,      \* each future: unsubmitted, queued, running, finished, failed, collected
    ph_overdue,    \* the units that have run for more than the timeout
    ph_result,     \* the dict `result`
    \* ---- DeletionManager.delete, asynchronous mode (Part 11)
    m_updates,     \* the ProgressUpdates that delete_async has yielded
    m_result,      \* the DeleteResult of DeletionManager.delete
    \* ---- DeletionManager.delete by strategy (Part 12)
    dm_strategy,   \* the strategy of the DeletionManager
    dm_pc,         \* where DeletionManager.delete stands: called, batch, returned
    \* ---- InteractiveCleanupUI.confirm_and_cleanup (Part 13)
    ui_call,       \* the call: [files, dry_run, backup, typed], typed the answer to input()
    ui_fs,         \* the paths that exist
    ui_pc,         \* called, input, returned
    ui_ret,        \* what confirm_and_cleanup returned: "True", "False", "raised"
    \* ---- the scan of an excluded root (Part 14)
    root_excluded, \* ScanStrategy.should_exclude(root)
    \* ---- walking a tree with symbolic links (Part 15)
    w_in,          \* the input: [parent, links, follow_symlinks, scanner]
    w_pc,          \* start, walk, done
    w_stack,       \* core scanner: the calls of _scan_directory, [dir, entries]
    w_queue,       \* concurrent scanner: the work queue
    w_visited,     \* core scanner: the set visited
    w_listed,      \* history: the directories listed, in order
    \* ---- ConcurrencyManager (Part 16)
    thread_pools,  \* ConcurrencyManager.thread_pools
    process_pools, \* ConcurrencyManager.process_pools
    cm_initialized,\* ConcurrencyManager._initialized
    cm_created,    \* the pools constructed so far
    cm_dead,       \* the ids of the pools that were shut down
    cm_live,       \* history: the <<kind, purpose>> obtained and not shut down since
    cm_call,       \* history: the last call, what it returned and what it found
    \* ---- MemoryMonitor (Part 17)
    mm_threshold_mb,\* MemoryMonitor(threshold_mb)
    mm_usage,      \* what get_memory_usage reports, in tenths of the unit of threshold_mb
    mm_call,       \* history: the last get_optimal_workers: [called, current_workers, status, ret]
    \* ---- SmartCleanupEngine.analyze (Part 19)
    an_call,       \* analyze: [files, include_duplicates, safety_check], files what the scan returned
    an_report,     \* the CleanupReport
    \* ---- IncrementalCache.invalidate and clear_all (Part 20)
    c_invalidated, \* history: the roots invalidated or cleared and not saved since
    c_op,          \* history: the operation just made on the cache, [op, root]
    \* ---- HashCache.get_or_compute (Part 21)
    h_computes,    \* history: digests computed for each key since it was last removed
    \* ---- concurrent get_thread_pool (Part 23)
    g_caller,      \* each calling thread: [pc, purpose, pool, ret]
    \* ---- scan_incremental called twice (Part 24)
    t_tree,        \* what scan_generator yields: the list of FileInfo below the root
    t_calls        \* history: the calls of scan_incremental made, what each returned and saved

scanVars == <<tree, rootState, hasMonitor, max_workers, work_queue, unfinished,
              stop_event, results, stats, mpc, mentries, mpending, result,
              wpc, wdir, wentries, wsub, stop_causes, dropped>>

dupVars == <<dfiles, dcall, dout>>

safetyVars == <<sfile, sconfig, splatform, senv, sverdict>>

deleteVars == <<del_files, progress_callback, present, del_pc, del_i, success, failed,
                cancelled, total_size, attempted, del_result>>

redelVars == <<present0, del_calls, smart_cfg, smart_env, trash, smart_log>>

asyncVars == <<a_files, a_stop, a_pc, a_next, a_state, a_completed, a_results,
               a_totals, a_worker, a_gone, a_cancel_issued, a_after>>

cacheVars == <<c_impl, c_ttl, c_now, c_memory, c_files, c_put, c_put_here,
               c_stored, c_got>>

incVars == <<i_cached, i_current, i_deleted, i_saved, i_result>>

hashVars == <<h_cache, h_lock, h_thread, h_ret, h_recency, h_evicted>>

parVars ==
    <<ph_files, ph_pc, ph_state, ph_overdue, ph_result>>

mgrVars ==
    <<m_updates, m_result>>

strategyVars ==
    <<dm_strategy, dm_pc>>

uiVars ==
    <<ui_call, ui_fs, ui_pc, ui_ret>>

rootVars ==
    <<root_excluded>>

walkVars ==
    <<w_in, w_pc, w_stack, w_queue, w_visited, w_listed>>

managerVars ==
    <<thread_pools, process_pools, cm_initialized, cm_created, cm_dead,
      cm_live, cm_call>>

monitorVars ==
    <<mm_threshold_mb, mm_usage, mm_call>>

reportVars ==
    <<an_call, an_report>>

invalidateVars ==
    <<c_invalidated, c_op>>

computeVars ==
    <<h_computes>>

raceVars ==
    <<g_caller>>

twiceVars ==
    <<t_tree, t_calls>>

vars ==
    <<scanVars, dupVars, safetyVars, deleteVars, redelVars, asyncVars,
      cacheVars, incVars, hashVars, parVars, mgrVars, strategyVars, uiVars,
      rootVars, walkVars, managerVars, monitorVars, reportVars,
      invalidateVars, computeVars, raceVars, twiceVars>>

Workers == 1..max_workers

\* ScanStrategy.early_stop, set by the caller: the scans modelled here run
\* with early stop enabled (scan() itself never reads the flag)
early_stop == TRUE

StopCauses == {"memory", "queue_full", "finished", "exception"}

(***************************************************************************)
(* The filesystem below the root.  Entry e has parent[e] (0 is the root)   *)
(* and a kind:                                                             *)
(*   file    a regular file                                                *)
(*   dir     a directory                                                   *)
(*   xdir    a directory whose path ScanStrategy.should_exclude rejects    *)
(*   nolist  a directory os.scandir cannot list (PermissionError)          *)
(*   nostat  an entry whose entry.stat() raises OSError                    *)
(* Entries are numbered in listing order, parents before children; what    *)
(* lies below an excluded or unlistable directory is never seen by a scan  *)
(* and is left out of the tree.                                            *)
(***************************************************************************)
Kinds == {"file", "dir", "xdir", "nolist", "nostat"}

DirKinds == {"dir", "xdir", "nolist"}

TreesOfSize(n) ==
    { [n |-> n, kind |-> k, parent |-> p] :
        <<k, p>> \in { kp \in [1..n -> Kinds] \X [1..n -> 0..n] :
            \A e \in 1..n :
                /\ kp[2][e] < e
                /\ kp[2][e] # 0 => kp[1][kp[2][e]] = "dir"
                /\ e > 1 => kp[2][e] >= kp[2][e - 1] } }

Trees == UNION { TreesOfSize(n) : n \in 0..MaxEntries }

Entries == 1..tree.n

\* entry.is_dir(follow_symlinks=False)
is_dir(e) == tree.kind[e] \in DirKinds

\* stat.st_size of an entry (directories have a size of their own too)
st_size(e) == e

RECURSIVE ListFrom(_, _)
\* os.scandir(d): the entries of directory d from entry number e on
ListFrom(d, e) ==
    IF e > tree.n THEN <<>>
    ELSE IF tree.parent[e] = d THEN <<e>> \o ListFrom(d, e + 1)
    ELSE ListFrom(d, e + 1)

scandir(d) == ListFrom(d, 1)

\* ScanStrategy.should_exclude(entry.path)
should_exclude(e) == tree.kind[e] = "xdir"

\* ScanStrategy.should_stop_early(current_count, elapsed_time); the elapsed
\* time is compared with max_time, given here as the flag `late`
should_stop_early(current_count, late) ==
    IF ~early_stop THEN FALSE
    ELSE IF current_count >= max_files THEN TRUE
    ELSE late

NoResult ==
    [returned |-> FALSE, total_count |-> 0, total_size |-> 0, error_count |-> 0,
     stopped_early |-> FALSE, stop_reason |-> ""]

\* ScanResult(...): stopped_early and stop_reason default to False and ""
ScanResult(count, size, errors, stopped, reason) ==
    [returned |-> TRUE, total_count |-> count, total_size |-> size,
     error_count |-> errors, stopped_early |-> stopped, stop_reason |-> reason]

ScanInit ==
    /\ tree \in Trees
    /\ rootState \in {"dir", "missing", "nolist"}
    /\ hasMonitor \in BOOLEAN
    /\ max_workers \in 1..MaxWorkers
    /\ work_queue = <<>>
    /\ unfinished = 0
    /\ stop_event = FALSE
    /\ results = <<>>
    /\ stats = [count |-> 0, errors |-> 0, size |-> 0]
    /\ mpc = "start"
    /\ mentries = <<>>
    /\ mpending = 0
    /\ result = NoResult
    /\ wpc = [w \in Workers |-> "idle"]
    /\ wdir = [w \in Workers |-> 0]
    /\ wentries = [w \in Workers |-> <<>>]
    /\ wsub = [w \in Workers |-> <<>>]
    /\ stop_causes = {}
    /\ dropped = {}

inputVars == <<tree, rootState, hasMonitor, max_workers>>
mainVars == <<mpc, mentries, mpending, result>>
workerVars == <<wpc, wdir, wentries, wsub>>

\* results.append(item); stats["count"] += 1; stats["size"] += item.size
Record(e) ==
    /\ results' = Append(results, e)
    /\ stats' = [stats EXCEPT !.count = @ + 1, !.size = @ + st_size(e)]

\* stats["errors"] += 1
CountError ==
    /\ stats' = [stats EXCEPT !.errors = @ + 1]
    /\ UNCHANGED results

(***************************************************************************)
(* The main thread.                                                        *)
(***************************************************************************)
\* scan.py 248-249: the root is missing or no directory
MainNoDirectory ==
    /\ mpc = "start"
    /\ rootState = "missing"
    /\ result' = ScanResult(0, 0, 0, FALSE, "")
    /\ mpc' = "returned"
    /\ UNCHANGED <<inputVars, work_queue, unfinished, stop_event, results, stats,
                   mentries, mpending, workerVars, stop_causes, dropped>>

\* scan.py 251-343: the workers are started, then the root is listed
MainStart ==
    /\ mpc = "start"
    /\ rootState # "missing"
    /\ wpc' = [w \in Workers |-> "loop"]
    /\ IF rootState = "nolist"
         THEN /\ mpc' = "except"
              /\ UNCHANGED mentries
         ELSE /\ mpc' = "seed"
              /\ mentries' = scandir(0)
    /\ UNCHANGED <<inputVars, work_queue, unfinished, stop_event, results, stats,
                   mpending, result, wdir, wentries, wsub, stop_causes, dropped>>

\* scan.py 344-370: one turn of the seeding loop
MainSeed ==
    /\ mpc = "seed"
    /\ IF mentries = <<>> \/ stop_event
         THEN /\ mpc' = "join"
              /\ UNCHANGED <<mentries, mpending, results, stats>>
         ELSE LET e == Head(mentries) IN
              /\ mentries' = Tail(mentries)
              /\ IF tree.kind[e] = "nostat"
                   THEN /\ CountError
                        /\ UNCHANGED <<mpc, mpending>>
                   ELSE /\ Record(e)
                        /\ IF is_dir(e) /\ ~should_exclude(e)
                             THEN mpc' = "put" /\ mpending' = e
                             ELSE UNCHANGED <<mpc, mpending>>
    /\ UNCHANGED <<inputVars, work_queue, unfinished, stop_event, result,
                   workerVars, stop_causes, dropped>>

\* scan.py 366: work_queue.put(entry.path), blocking, no timeout
MainPut ==
    /\ mpc = "put"
    /\ Len(work_queue) < queue_size
    /\ work_queue' = Append(work_queue, mpending)
    /\ unfinished' = unfinished + 1
    /\ mpending' = 0
    /\ mpc' = "seed"
    /\ UNCHANGED <<inputVars, stop_event, results, stats, mentries, result,
                   workerVars, stop_causes, dropped>>

\* MainJoin as it would be if the main thread did not wait for the queue
MainJoinNoWait ==
    /\ mpc = "join"
    /\ mpc' = "set_stop"
    /\ UNCHANGED <<inputVars, work_queue, unfinished, stop_event, results, stats,
                   mentries, mpending, result, workerVars, stop_causes, dropped>>

\* scan.py 373: work_queue.join() returns once every task is done
MainJoin ==
    /\ mpc = "join"
    /\ unfinished = 0
    /\ mpc' = "set_stop"
    /\ UNCHANGED <<inputVars, work_queue, unfinished, stop_event, results, stats,
                   mentries, mpending, result, workerVars, stop_causes, dropped>>

\* scan.py 374: stop_event.set()
MainSetStop ==
    /\ mpc = "set_stop"
    /\ stop_event' = TRUE
    /\ stop_causes' = stop_causes \cup {"finished"}
    /\ mpc' = "join_workers"
    /\ UNCHANGED <<inputVars, work_queue, unfinished, results, stats,
                   mentries, mpending, result, workerVars, dropped>>

\* scan.py 377-378: w.join(timeout=5.0) for every worker: each join ends
\* when the worker has exited
MainJoinWorkers ==
    /\ mpc = "join_workers"
    /\ \A w \in Workers : wpc[w] = "exit"
    /\ mpc' = "return"
    /\ UNCHANGED <<inputVars, work_queue, unfinished, stop_event, results, stats,
                   mentries, mpending, result, workerVars, stop_causes, dropped>>

\* scan.py 378: ... or when its timeout expires
MainJoinTimeout ==
    /\ mpc = "join_workers"
    /\ \E w \in Workers : wpc[w] # "exit"
    /\ mpc' = "return"
    /\ UNCHANGED <<inputVars, work_queue, unfinished, stop_event, results, stats,
                   mentries, mpending, result, workerVars, stop_causes, dropped>>

\* scan.py 380-381: except Exception: stop_event.set()
MainExcept ==
    /\ mpc = "except"
    /\ stop_event' = TRUE
    /\ stop_causes' = stop_causes \cup {"exception"}
    /\ mpc' = "return"
    /\ UNCHANGED <<inputVars, work_queue, unfinished, results, stats,
                   mentries, mpending, result, workerVars, dropped>>

\* scan.py 383-392: the ScanResult; stop_reason is not passed
MainReturn ==
    /\ mpc = "return"
    /\ result' = ScanResult(stats.count, stats.size, stats.errors, stop_event, "")
    /\ mpc' = "returned"
    /\ UNCHANGED <<inputVars, work_queue, unfinished, stop_event, results, stats,
                   mentries, mpending, workerVars, stop_causes, dropped>>

(***************************************************************************)
(* A worker thread.                                                        *)
(***************************************************************************)
\* scan.py 262: while not stop_event.is_set()
WorkerLoop(w) ==
    /\ wpc[w] = "loop"
    /\ wpc' = [wpc EXCEPT ![w] = IF stop_event THEN "exit" ELSE "get"]
    /\ UNCHANGED <<inputVars, work_queue, unfinished, stop_event, results, stats,
                   mainVars, wdir, wentries, wsub, stop_causes, dropped>>

\* scan.py 263-266: work_queue.get(timeout=0.1); Empty leads back to the loop
WorkerGet(w) ==
    /\ wpc[w] = "get"
    /\ IF work_queue = <<>>
         THEN /\ wpc' = [wpc EXCEPT ![w] = "loop"]
              /\ UNCHANGED <<work_queue, wdir>>
         ELSE /\ wdir' = [wdir EXCEPT ![w] = Head(work_queue)]
              /\ work_queue' = Tail(work_queue)
              /\ wpc' = [wpc EXCEPT ![w] = "check"]
    /\ UNCHANGED <<inputVars, unfinished, stop_event, results, stats,
                   mainVars, wentries, wsub, stop_causes, dropped>>

\* scan.py 268-271: the memory monitor asks for a pause: the worker sets the
\* stop signal and leaves the loop; task_done() is not called for dir_path
WorkerMemoryStop(w) ==
    /\ wpc[w] = "check"
    /\ hasMonitor
    /\ stop_event' = TRUE
    /\ stop_causes' = stop_causes \cup {"memory"}
    /\ wpc' = [wpc EXCEPT ![w] = "exit"]
    /\ UNCHANGED <<inputVars, work_queue, unfinished, results, stats,
                   mainVars, wdir, wentries, wsub, dropped>>

\* scan.py 269, 274-276: no pause; os.scandir(dir_path) lists the directory
\* or raises, which `except Exception: pass` swallows before task_done()
WorkerOpen(w) ==
    /\ wpc[w] = "check"
    /\ IF tree.kind[wdir[w]] = "nolist"
         THEN /\ wpc' = [wpc EXCEPT ![w] = "task_done"]
              /\ UNCHANGED <<wentries, wsub>>
         ELSE /\ wpc' = [wpc EXCEPT ![w] = "scan"]
              /\ wentries' = [wentries EXCEPT ![w] = scandir(wdir[w])]
              /\ wsub' = [wsub EXCEPT ![w] = <<>>]
    /\ UNCHANGED <<inputVars, work_queue, unfinished, stop_event, results, stats,
                   mainVars, wdir, stop_causes, dropped>>

\* scan.py 278-305: one turn of the loop over the entries of dir_path
WorkerScan(w) ==
    /\ wpc[w] = "scan"
    /\ IF wentries[w] = <<>> \/ stop_event
         THEN /\ wpc' = [wpc EXCEPT ![w] = "put"]
              /\ UNCHANGED <<wentries, wsub, results, stats>>
         ELSE LET e == Head(wentries[w]) IN
              /\ wentries' = [wentries EXCEPT ![w] = Tail(@)]
              /\ UNCHANGED wpc
              /\ IF tree.kind[e] = "nostat"
                   THEN /\ CountError
                        /\ UNCHANGED wsub
                   ELSE /\ Record(e)
                        /\ IF is_dir(e) /\ ~should_exclude(e)
                             THEN wsub' = [wsub EXCEPT ![w] = Append(@, e)]
                             ELSE UNCHANGED wsub
    /\ UNCHANGED <<inputVars, work_queue, unfinished, stop_event,
                   mainVars, wdir, stop_causes, dropped>>

\* scan.py 308-310: work_queue.put(subdir, timeout=1.0) finds room
WorkerPut(w) ==
    /\ wpc[w] = "put"
    /\ wsub[w] # <<>>
    /\ Len(work_queue) < queue_size
    /\ work_queue' = Append(work_queue, Head(wsub[w]))
    /\ unfinished' = unfinished + 1
    /\ wsub' = [wsub EXCEPT ![w] = Tail(@)]
    /\ UNCHANGED <<inputVars, stop_event, results, stats, mainVars,
                   wpc, wdir, wentries, stop_causes, dropped>>

\* WorkerPutFull as it would be if a full queue were simply grown
WorkerPutFullGrow(w) ==
    /\ wpc[w] = "put"
    /\ wsub[w] # <<>>
    /\ Len(work_queue) >= queue_size
    /\ work_queue' = Append(work_queue, Head(wsub[w]))
    /\ unfinished' = unfinished + 1
    /\ wsub' = [wsub EXCEPT ![w] = Tail(@)]
    /\ UNCHANGED <<inputVars, stop_event, results, stats, mainVars,
                   wpc, wdir, wentries, stop_causes, dropped>>

\* scan.py 311-313: the put times out on a full queue: queue.Full, the stop
\* signal is set and the loop goes on with the next subdirectory
WorkerPutFull(w) ==
    /\ wpc[w] = "put"
    /\ wsub[w] # <<>>
    /\ Len(work_queue) >= queue_size
    /\ stop_event' = TRUE
    /\ stop_causes' = stop_causes \cup {"queue_full"}
    /\ dropped' = dropped \cup {Head(wsub[w])}
    /\ wsub' = [wsub EXCEPT ![w] = Tail(@)]
    /\ UNCHANGED <<inputVars, work_queue, unfinished, results, stats, mainVars,
                   wpc, wdir, wentries>>

\* scan.py 308, 318-319: no subdirectory is left to put (or the listing
\* failed); finally: work_queue.task_done()
WorkerTaskDone(w) ==
    /\ \/ wpc[w] = "task_done"
       \/ wpc[w] = "put" /\ wsub[w] = <<>>
    /\ unfinished' = unfinished - 1
    /\ wdir' = [wdir EXCEPT ![w] = 0]
    /\ wpc' = [wpc EXCEPT ![w] = "loop"]
    /\ UNCHANGED <<inputVars, work_queue, stop_event, results, stats,
                   mainVars, wentries, wsub, stop_causes, dropped>>

ScanNext ==
    \/ MainNoDirectory
    \/ MainStart
    \/ MainSeed
    \/ MainPut
    \/ MainJoin
    \/ MainSetStop
    \/ MainJoinWorkers
    \/ MainJoinTimeout
    \/ MainExcept
    \/ MainReturn
    \/ \E w \in Workers : WorkerLoop(w)
    \/ \E w \in Workers : WorkerGet(w)
    \/ \E w \in Workers : WorkerMemoryStop(w)
    \/ \E w \in Workers : WorkerOpen(w)
    \/ \E w \in Workers : WorkerScan(w)
    \/ \E w \in Workers : WorkerPut(w)
    \/ \E w \in Workers : WorkerPutFull(w)
    \/ \E w \in Workers : WorkerTaskDone(w)

(***************************************************************************)
(* Properties of ConcurrentScanner.scan.                                   *)
(***************************************************************************)
AllWorkersExited == \A w \in Workers : wpc[w] = "exit"

\* the causes that make a scan an early stop
EarlyCauses == {"memory", "queue_full"}

\* every entry below the root can be listed and read, and none is excluded
CleanTree == rootState = "dir" /\ \A e \in Entries : tree.kind[e] \in {"file", "dir"}

ResultSet == { results[i] : i \in 1..Len(results) }

\* C1: every call of scan eventually returns a ScanResult; no thread stays
\* blocked forever on work_queue.join() or on work_queue.put().  Stated as:
\* the main thread never waits in join() for unfinished tasks, or in put()
\* for room in the queue, when every worker has already left its loop.
C1_ScanReturns ==
    ~ ( /\ AllWorkersExited
        /\ \/ mpc = "join" /\ unfinished > 0
           \/ mpc = "put" /\ Len(work_queue) >= queue_size )

C3_FileLimit ==
    (result.returned /\ early_stop /\ CleanTree /\ tree.n > max_files)
        => (result.stopped_early /\ Len(results) <= max_files)

C5_StoppedEarlyExact ==
    result.returned => (result.stopped_early <=> stop_causes \cap EarlyCauses # {})

\* C6: whenever stopped_early is true, stop_reason is non-empty; whenever
\* stopped_early is false, stop_reason is empty.
C6_StopReason ==
    result.returned =>
        /\ result.stopped_early => result.stop_reason # ""
        /\ ~result.stopped_early => result.stop_reason = ""

\* the failures a complete scan meets: the entries whose stat fails and the
\* directories that cannot be listed; below a root that cannot be listed
\* nothing else is met
StatFailures ==
    IF rootState = "nolist" THEN {} ELSE {e \in Entries : tree.kind[e] = "nostat"}

ListFailures ==
    IF rootState = "nolist" THEN {0} ELSE {e \in Entries : tree.kind[e] = "nolist"}

\* C27: a scan that was not stopped early has met every entry of the tree;
\* the error_count it returns is the number of entries that could not be
\* stat'ed plus the number of directories that could not be listed.
C27_ErrorCountExact ==
    (result.returned /\ rootState # "missing" /\ stop_causes \cap EarlyCauses = {}) =>
        result.error_count = Cardinality(StatFailures) + Cardinality(ListFailures)

\* the sizes of the records of a list that are not directories
RECURSIVE NonDirectorySize(_)
NonDirectorySize(items) ==
    IF items = <<>> THEN 0
    ELSE (IF is_dir(Head(items)) THEN 0 ELSE st_size(Head(items)))
             + NonDirectorySize(Tail(items))

\* C31: the ScanResult that scan returns has a count equal to the number of
\* its records and a total size equal to the sum of the sizes of its records
\* that are not directories.
C31_ResultTotals ==
    [][(~result.returned /\ result'.returned) =>
          /\ result'.total_count = Len(results')
          /\ result'.total_size = NonDirectorySize(results')]_vars

(***************************************************************************)
(* Part 2  find_duplicates                                                 *)
(*   core finder       src/diskcleaner/core/duplicate_finder.py            *)
(*   optimized finder  src/diskcleaner/optimization/hash.py                *)
(*                                                                         *)
(* A file of the input list is [size, data, late, kind]; its path is its   *)
(* position in the list, so the paths are pairwise distinct.  Sizes and    *)
(* offsets are counted in units of half a MiB.  A file holds `size` units, *)
(* each equal to `data`; its FileInfo records that size, the mtime bucket  *)
(* int(mtime) (0, or 1 when `late`) and is_dir.  kind is one of            *)
(*   file        a readable regular file                                   *)
(*   dir         a directory                                               *)
(*   unreadable  a regular file that open() refuses (PermissionError)      *)
(* A digest is modelled by the data it was fed (no collisions): the tag    *)
(* "h" followed by the units read.  The empty sequence is the empty string *)
(* that marks a failed hash.                                               *)
(***************************************************************************)
\* AdaptiveHasher.chunk_size: 1024 * 1024 bytes
chunk_size == 2
\* compute_hash: below 1 * 1024 * 1024 bytes the whole file is hashed
SmallLimit == 2
\* compute_hash: below 100 * 1024 * 1024 bytes three samples are hashed
LargeLimit == 200
\* compute_hash: _multi_sample_hash(file, chunks=10)
MultiChunks == 10
\* DuplicateFinder.ADAPTIVE_THRESHOLD
ADAPTIVE_THRESHOLD == 1000
\* optimized find_duplicates: more than 10 candidates are hashed in parallel
ParallelMin == 10

DataSyms == {"a", "b"}

\* the sizes of the files: half a MiB, 2 MiB and 3 MiB
DupSizes == {1, 4, 6}

FileShapes ==
    [size : DupSizes, data : DataSyms, late : BOOLEAN, kind : {"file"}]
        \cup [size : {1}, data : {"a"}, late : {FALSE}, kind : {"dir", "unreadable"}]

DupInputs == UNION { [1..n -> FileShapes] : n \in 0..MaxDupFiles }

NoCall == [finder |-> "none", strategy |-> "none", use_parallel |-> FALSE]

EmptyHash == <<>>

Digest(data) == <<"h">> \o data

Min(a, b) == IF a <= b THEN a ELSE b

\* the bytes of file f
Content(f) == [i \in 1..f.size |-> f.data]

\* f.seek(offset); f.read(n)
ReadAt(f, offset, n) == SubSeq(Content(f), offset + 1, Min(offset + n, f.size))

\* AdaptiveHasher._full_hash
full_hash(f) == Digest(Content(f))

RECURSIVE SampleData(_, _)
\* the data _sample_hash feeds to the digest: chunk_size bytes at each
\* offset int(size * chunk_pos); the positions are given in halves
SampleData(f, halves) ==
    IF halves = <<>> THEN <<>>
    ELSE ReadAt(f, (f.size * Head(halves)) \div 2, chunk_size)
             \o SampleData(f, Tail(halves))

\* AdaptiveHasher._sample_hash(file, chunks=[0.0, 0.5, 1.0])
sample_hash(f) == Digest(SampleData(f, <<0, 1, 2>>))

RECURSIVE MultiData(_, _, _)
\* the data _multi_sample_hash feeds to the digest, from segment i on
MultiData(f, i, chunks) ==
    IF i >= chunks THEN <<>>
    ELSE ReadAt(f, (f.size * i) \div chunks, chunk_size) \o MultiData(f, i + 1, chunks)

\* AdaptiveHasher._multi_sample_hash(file, chunks=10)
multi_sample_hash(f) == Digest(MultiData(f, 0, MultiChunks))

\* AdaptiveHasher.compute_hash
compute_hash(f) ==
    IF f.kind = "dir" THEN EmptyHash
    ELSE IF f.kind = "unreadable" THEN EmptyHash
    ELSE IF f.size < SmallLimit THEN full_hash(f)
    ELSE IF f.size < LargeLimit THEN sample_hash(f)
    ELSE multi_sample_hash(f)

\* core DuplicateFinder._calculate_hash: SHA-256 of the whole file; open()
\* raises OSError for a directory or an unreadable file
calculate_hash(f) ==
    IF f.kind = "file" THEN [raised |-> FALSE, hash |-> full_hash(f)]
    ELSE [raised |-> TRUE, hash |-> EmptyHash]

(***************************************************************************)
(* Grouping into a dict of lists: the keys in order of first occurrence,   *)
(* the members of a key in input order.                                    *)
(***************************************************************************)
\* d[key].append(x), creating the list when the key is new
DictAppend(d, key, x) ==
    IF \E j \in 1..Len(d) : d[j].key = key
      THEN [j \in 1..Len(d) |->
              IF d[j].key = key
                THEN [key |-> key, members |-> Append(d[j].members, x)]
                ELSE d[j]]
      ELSE Append(d, [key |-> key, members |-> <<x>>])

RECURSIVE GroupFrom(_, _, _, _)
GroupFrom(items, keys, i, d) ==
    IF i > Len(items) THEN d
    ELSE GroupFrom(items, keys, i + 1, DictAppend(d, keys[i], items[i]))

\* items grouped by keys (keys[i] is the key of items[i])
GroupBy(items, keys) == GroupFrom(items, keys, 1, <<>>)

RECURSIVE Select(_, _)
\* the items whose flag is TRUE (keep[i] belongs to items[i])
Select(items, keep) ==
    IF items = <<>> THEN <<>>
    ELSE (IF Head(keep) THEN <<Head(items)>> ELSE <<>>)
             \o Select(Tail(items), Tail(keep))

RECURSIVE Flatten(_)
Flatten(ss) == IF ss = <<>> THEN <<>> ELSE Head(ss) \o Flatten(Tail(ss))

\* the entries of a dict that have at least `least` members
AtLeast(d, least) == Select(d, [j \in 1..Len(d) |-> Len(d[j].members) >= least])

(***************************************************************************)
(* DuplicateGroup.  The core class computes count and reclaimable_space as *)
(* properties; the optimized class stores them when it is built.           *)
(***************************************************************************)
\* core DuplicateGroup: count and reclaimable_space are properties
CoreGroup(members, size, hash) ==
    [files |-> members, size |-> size, hash_value |-> hash,
     count |-> Len(members), reclaimable_space |-> size * (Len(members) - 1)]

\* optimized DuplicateGroup, as built in find_duplicates
OptGroup(members, size, hash) ==
    [files |-> members, size |-> size, hash_value |-> hash,
     count |-> Len(members), reclaimable_space |-> size * (Len(members) - 1)]

RECURSIVE InsertDesc(_, _)
\* g placed behind every group that reclaims at least as much
InsertDesc(sorted, g) ==
    IF sorted = <<>> THEN <<g>>
    ELSE IF Head(sorted).reclaimable_space >= g.reclaimable_space
           THEN <<Head(sorted)>> \o InsertDesc(Tail(sorted), g)
           ELSE <<g>> \o sorted

RECURSIVE SortFrom(_, _, _)
SortFrom(groups, i, sorted) ==
    IF i > Len(groups) THEN sorted
    ELSE SortFrom(groups, i + 1, InsertDesc(sorted, groups[i]))

\* the sort left out
SortUnsorted(groups) == groups

\* duplicates.sort(key=lambda d: d.reclaimable_space, reverse=True): stable
SortByReclaimable(groups) == SortFrom(groups, 1, <<>>)

(***************************************************************************)
(* The core finder.                                                        *)
(***************************************************************************)
\* DuplicateFinder._should_use_accurate
should_use_accurate(strategy, file_count) ==
    IF strategy = "accurate" THEN TRUE
    ELSE IF strategy = "fast" THEN FALSE
    ELSE file_count < ADAPTIVE_THRESHOLD

\* the dict hash_groups built over the paths ps, skipping the files whose
\* hash raises
HashGroups(files, ps) ==
    LET ok == Select(ps, [i \in 1..Len(ps) |-> ~calculate_hash(files[ps[i]]).raised])
    IN  GroupBy(ok, [i \in 1..Len(ok) |-> calculate_hash(files[ok[i]]).hash])

\* DuplicateFinder._find_by_hash
find_by_hash(files, ps) ==
    LET dups == AtLeast(HashGroups(files, ps), 2)
    IN  [j \in 1..Len(dups) |->
            CoreGroup(dups[j].members, files[dups[j].members[1]].size, dups[j].key)]

\* step 2 of the fast strategy for one size group: its mtime buckets with two
\* files or more
MtimeBuckets(files, sg) ==
    IF Len(sg.members) < 2 THEN <<>>
    ELSE LET ms == sg.members
             byTime == GroupBy(ms, [i \in 1..Len(ms) |->
                                      IF files[ms[i]].late THEN 1 ELSE 0])
             kept == AtLeast(byTime, 2)
         IN  [j \in 1..Len(kept) |-> [size |-> sg.key, members |-> kept[j].members]]

\* step 3 as it would be without the hash verification
VerifiedUnhashed(files, pot) ==
    << CoreGroup(pot.members, pot.size, EmptyHash) >>

\* step 3 of the fast strategy for one potential group
VerifiedGroups(files, pot) ==
    LET dups == AtLeast(HashGroups(files, pot.members), 2)
    IN  [j \in 1..Len(dups) |-> CoreGroup(dups[j].members, pot.size, dups[j].key)]

\* DuplicateFinder._find_by_fast_strategy
find_by_fast_strategy(files, ps) ==
    LET size_groups == GroupBy(ps, [i \in 1..Len(ps) |-> files[ps[i]].size])
        potential == Flatten([j \in 1..Len(size_groups) |->
                                 MtimeBuckets(files, size_groups[j])])
    IN  Flatten([j \in 1..Len(potential) |-> VerifiedGroups(files, potential[j])])

\* the paths of the list, in order
Paths(files) == [i \in 1..Len(files) |-> i]

\* core DuplicateFinder.find_duplicates
core_find_duplicates(files, strategy) ==
    LET all == Paths(files)
        file_list == Select(all, [i \in 1..Len(all) |-> files[i].kind # "dir"])
    IN  IF files = <<>> \/ file_list = <<>> THEN <<>>
        ELSE SortByReclaimable(
                 IF should_use_accurate(strategy, Len(file_list))
                   THEN find_by_hash(files, file_list)
                   ELSE find_by_fast_strategy(files, file_list))

(***************************************************************************)
(* The optimized finder.                                                   *)
(***************************************************************************)
\* FastFilter.quick_dedup
quick_dedup(files) ==
    LET all == Paths(files)
        by_size == GroupBy(all, [i \in 1..Len(all) |-> files[i].size])
        kept == AtLeast(by_size, 2)
    IN  [j \in 1..Len(kept) |-> kept[j].members]

\* DuplicateFinder._hash_sequential, then hashes.get(file.path, ""): the dict
\* is keyed by the path strings
hash_sequential(files, p) == compute_hash(files[p])

\* DuplicateFinder._hash_parallel, then hashes.get(file.path, ""): the dict
\* that hash_files_parallel returns is keyed by Path objects, which no path
\* string equals, so every lookup yields the default
hash_parallel(files, p) == EmptyHash

\* optimized DuplicateFinder.find_duplicates
opt_find_duplicates(files, use_parallel) ==
    LET candidates == quick_dedup(files)
        files_to_hash == Flatten(candidates)
        hashes == [i \in 1..Len(files_to_hash) |->
                      IF use_parallel /\ Len(files_to_hash) > ParallelMin
                        THEN hash_parallel(files, files_to_hash[i])
                        ELSE hash_sequential(files, files_to_hash[i])]
        hashed == Select(files_to_hash,
                         [i \in 1..Len(files_to_hash) |-> hashes[i] # EmptyHash])
        hash_groups == GroupBy(hashed,
                         [i \in 1..Len(hashed) |-> compute_hash(files[hashed[i]])])
        dups == AtLeast(hash_groups, 2)
    IN  IF files = <<>> \/ candidates = <<>> THEN <<>>
        ELSE SortByReclaimable(
                 [j \in 1..Len(dups) |->
                     OptGroup(dups[j].members, files[dups[j].members[1]].size,
                              dups[j].key)])

DupInit ==
    /\ dfiles \in DupInputs
    /\ dcall = NoCall
    /\ dout = <<>>

\* DuplicateFinder(strategy).find_duplicates(files) of the core package
CoreFind ==
    /\ dcall = NoCall
    /\ \E strategy \in {"adaptive", "fast", "accurate"} :
        /\ dcall' = [finder |-> "core", strategy |-> strategy, use_parallel |-> FALSE]
        /\ dout' = core_find_duplicates(dfiles, strategy)
    /\ UNCHANGED dfiles

\* DuplicateFinder(use_parallel).find_duplicates(files) of the optimized package
OptFind ==
    /\ dcall = NoCall
    /\ \E use_parallel \in BOOLEAN :
        /\ dcall' = [finder |-> "optimized", strategy |-> "none",
                     use_parallel |-> use_parallel]
        /\ dout' = opt_find_duplicates(dfiles, use_parallel)
    /\ UNCHANGED dfiles

DupNext == CoreFind \/ OptFind


(***************************************************************************)
(* Properties of find_duplicates.                                          *)
(***************************************************************************)
\* the hash the finder that was called computes for path p
HashOf(p) ==
    IF dcall.finder = "core" THEN calculate_hash(dfiles[p]).hash
    ELSE compute_hash(dfiles[p])

\* the paths of group g
Members(g) == { g.files[i] : i \in 1..Len(g.files) }

\* C7: in every list find_duplicates returns (core finder with any strategy,
\* optimized finder), all members of a group have the same recorded size and
\* the same hash, every group has at least two members, and no path occurs in
\* two groups or twice in one group.
C7_GroupingInvariant ==
    dcall # NoCall =>
        /\ \A k \in 1..Len(dout) :
            /\ Len(dout[k].files) >= 2
            /\ \A p, q \in Members(dout[k]) :
                /\ dfiles[p].size = dfiles[q].size
                /\ HashOf(p) = HashOf(q)
            /\ Cardinality(Members(dout[k])) = Len(dout[k].files)
        /\ \A k, l \in 1..Len(dout) :
            k # l => Members(dout[k]) \cap Members(dout[l]) = {}

\* C8: every returned group has reclaimable_space = size * (count - 1) with
\* count = len(files), and the returned list is ordered by reclaimable_space,
\* largest first.
C8_ReclaimableSorted ==
    dcall # NoCall =>
        /\ \A k \in 1..Len(dout) :
            /\ dout[k].count = Len(dout[k].files)
            /\ dout[k].reclaimable_space = dout[k].size * (dout[k].count - 1)
        /\ \A k \in 1..Len(dout) - 1 :
            dout[k].reclaimable_space >= dout[k + 1].reclaimable_space

\* the optimized finder returned two groups that the sort had to exchange:
\* the group found second reclaims more than the group found first
C8_Witness ==
    /\ dcall.finder = "optimized"
    /\ Len(dout) = 2
    /\ dout[1].reclaimable_space > dout[2].reclaimable_space
    /\ dout[1].files[1] > dout[2].files[1]

\* the groups the accurate strategy returns for the files of the call
AccurateGroups == core_find_duplicates(dfiles, "accurate")

\* paths p and q are in one group of the list of groups
Together(groups, p, q) ==
    \E k \in 1..Len(groups) : p \in Members(groups[k]) /\ q \in Members(groups[k])

\* the files at p and q have the same size, the same mtime bucket and the
\* same content hash
SameSizeTimeHash(p, q) ==
    /\ dfiles[p].size = dfiles[q].size
    /\ dfiles[p].late = dfiles[q].late
    /\ ~calculate_hash(dfiles[p]).raised
    /\ ~calculate_hash(dfiles[q]).raised
    /\ calculate_hash(dfiles[p]).hash = calculate_hash(dfiles[q]).hash

\* C20: every group of the fast strategy lies within one group of the accurate
\* strategy for the same files, and two files are in one fast group exactly
\* when they have the same size, the same mtime bucket and the same hash.
C20_FastRefinesAccurate ==
    (dcall.finder = "core" /\ dcall.strategy = "fast") =>
        /\ LET accurate == AccurateGroups
           IN  \A k \in 1..Len(dout) :
                   \E j \in 1..Len(accurate) :
                       Members(dout[k]) \subseteq Members(accurate[j])
        /\ \A p, q \in DOMAIN dfiles :
               (p # q /\ dfiles[p].kind # "dir" /\ dfiles[q].kind # "dir")
               => (Together(dout, p, q) <=> SameSizeTimeHash(p, q))

\* the fast strategy returned a group that is a proper part of an accurate
\* group: a third file with the same content has another mtime bucket
C20_Witness ==
    /\ dcall.finder = "core"
    /\ dcall.strategy = "fast"
    /\ \E k \in 1..Len(dout) :
           \E j \in 1..Len(AccurateGroups) :
               /\ Members(dout[k]) \subseteq Members(AccurateGroups[j])
               /\ Members(dout[k]) # Members(AccurateGroups[j])
    /\ \E p \in DOMAIN dfiles : dfiles[p].kind = "unreadable"

(***************************************************************************)
(* Part 3  SafetyChecker.verify_file      src/diskcleaner/core/safety.py   *)
(*                                                                         *)
(* A string is the sequence of its characters.  A FileInfo is [path, name].*)
(* The configuration is [protected_paths, protected_extensions,            *)
(* protected_patterns, check_locks, verify_perms]; the environment of the  *)
(* call is [open_fails, lsof, writable]:                                   *)
(*   open_fails  os.open(path, O_EXCL | O_RDWR) raises OSError             *)
(*   lsof        what running lsof does: "rc0" (a process holds the file), *)
(*               "rc1", "timeout" (TimeoutExpired), "missing" (no lsof)    *)
(*   writable    os.access(path, W_OK)                                     *)
(* Paths are written with "/"; os.path.normpath is the POSIX one.          *)
(***************************************************************************)
Platforms == {"Windows", "Linux", "Darwin", "FreeBSD"}

LsofOutcomes == {"rc0", "rc1", "timeout", "missing"}

\* str.lower() of one character
LowerChar(c) == IF c = "X" THEN "x" ELSE c

\* str.lower()
lower(s) == [i \in 1..Len(s) |-> LowerChar(s[i])]

\* str.startswith
startswith(s, prefix) ==
    /\ Len(prefix) <= Len(s)
    /\ SubSeq(s, 1, Len(prefix)) = prefix

\* str.rfind(c) + 1: the last position of c in s, 0 when there is none
rfind(s, c) ==
    IF \E i \in 1..Len(s) : s[i] = c
      THEN CHOOSE i \in 1..Len(s) : s[i] = c /\ \A j \in (i + 1)..Len(s) : s[j] # c
      ELSE 0

RECURSIVE SplitFrom(_, _, _)
\* s.split("/") from position i on, cur being the component under way
SplitFrom(s, i, cur) ==
    IF i > Len(s) THEN <<cur>>
    ELSE IF s[i] = "/" THEN <<cur>> \o SplitFrom(s, i + 1, <<>>)
    ELSE SplitFrom(s, i + 1, Append(cur, s[i]))

RECURSIVE NormComps(_, _, _)
\* the loop of posixpath.normpath over the components
NormComps(comps, absolute, new_comps) ==
    IF comps = <<>> THEN new_comps
    ELSE LET comp == Head(comps)
             rest == Tail(comps)
         IN  IF comp = <<>> \/ comp = <<".">>
               THEN NormComps(rest, absolute, new_comps)
             ELSE IF \/ comp # <<".", ".">>
                     \/ (~absolute /\ new_comps = <<>>)
                     \/ (new_comps # <<>> /\ new_comps[Len(new_comps)] = <<".", ".">>)
               THEN NormComps(rest, absolute, Append(new_comps, comp))
             ELSE IF new_comps # <<>>
               THEN NormComps(rest, absolute, SubSeq(new_comps, 1, Len(new_comps) - 1))
             ELSE NormComps(rest, absolute, new_comps)

RECURSIVE JoinComps(_)
\* "/".join(comps)
JoinComps(comps) ==
    IF comps = <<>> THEN <<>>
    ELSE IF Len(comps) = 1 THEN Head(comps)
    ELSE Head(comps) \o <<"/">> \o JoinComps(Tail(comps))

\* os.path.normpath
normpath(path) ==
    IF path = <<>> THEN <<".">>
    ELSE LET absolute == path[1] = "/"
             slashes == IF ~absolute THEN <<>>
                        ELSE IF startswith(path, <<"/", "/">>)
                                  /\ ~startswith(path, <<"/", "/", "/">>)
                               THEN <<"/", "/">>
                        ELSE <<"/">>
             joined == slashes \o JoinComps(NormComps(SplitFrom(path, 1, <<>>),
                                                      absolute, <<>>))
         IN  IF joined = <<>> THEN <<".">> ELSE joined

\* os.path.splitext(filename)[1]: from the last dot on, unless only dots
\* precede it in the name
splitext(filename) ==
    LET sepIndex == rfind(filename, "/")
        dotIndex == rfind(filename, ".")
    IN  IF /\ dotIndex > sepIndex
           /\ \E i \in (sepIndex + 1)..(dotIndex - 1) : filename[i] # "."
          THEN SubSeq(filename, dotIndex, Len(filename))
          ELSE <<>>

RECURSIVE Glob(_, _)
\* the match of fnmatch for patterns made of characters, "?" and "*"
Glob(s, pat) ==
    IF pat = <<>> THEN s = <<>>
    ELSE IF Head(pat) = "*"
      THEN Glob(s, Tail(pat)) \/ (s # <<>> /\ Glob(Tail(s), pat))
    ELSE /\ s # <<>>
         /\ (Head(pat) = "?" \/ Head(pat) = Head(s))
         /\ Glob(Tail(s), Tail(pat))

\* os.path.normcase: lower case on Windows, nothing elsewhere
normcase(platform, s) == IF platform = "Windows" THEN lower(s) ELSE s

\* fnmatch.fnmatch
fnmatch(platform, filename, pattern) ==
    Glob(normcase(platform, filename), normcase(platform, pattern))

\* SafetyChecker._is_protected_path
is_protected_path(cfg, path) ==
    \E protected \in cfg.protected_paths :
        startswith(normpath(path), normpath(protected))

\* SafetyChecker._is_protected_extension
is_protected_extension(cfg, filename) ==
    lower(splitext(filename)) \in cfg.protected_extensions

\* SafetyChecker._is_protected_pattern
is_protected_pattern(cfg, platform, filename) ==
    \E pattern \in cfg.protected_patterns : fnmatch(platform, filename, pattern)

\* SafetyChecker._is_locked_windows
is_locked_windows(env) == env.open_fails

\* SafetyChecker._is_locked_unix
is_locked_unix(env) ==
    IF env.lsof \in {"timeout", "missing"} THEN FALSE
    ELSE env.lsof = "rc0"

\* SafetyChecker._is_locked
is_locked(platform, env) ==
    IF platform = "Windows" THEN is_locked_windows(env)
    ELSE IF platform \in {"Linux", "Darwin"} THEN is_locked_unix(env)
    ELSE FALSE

\* SafetyChecker._has_write_permission
has_write_permission(env) == env.writable

\* the checks in another order: the lock probe and the permission check first
verify_file_probe_first(cfg, platform, env, file) ==
    IF cfg.check_locks /\ is_locked(platform, env)
      THEN [status |-> "LOCKED", probes |-> {"lock"}]
    ELSE IF cfg.verify_perms /\ ~has_write_permission(env)
      THEN [status |-> "NO_PERMISSION", probes |-> {"lock", "perm"}]
    ELSE IF \/ is_protected_path(cfg, file.path)
            \/ is_protected_extension(cfg, file.name)
            \/ is_protected_pattern(cfg, platform, file.name)
      THEN [status |-> "PROTECTED", probes |-> {"lock", "perm"}]
    ELSE [status |-> "SAFE", probes |-> {"lock", "perm"}]

\* SafetyChecker.verify_file: the status returned, and which of _is_locked
\* ("lock") and _has_write_permission ("perm") the call invoked
verify_file(cfg, platform, env, file) ==
    IF is_protected_path(cfg, file.path)
      THEN [status |-> "PROTECTED", probes |-> {}]
    ELSE IF is_protected_extension(cfg, file.name)
      THEN [status |-> "PROTECTED", probes |-> {}]
    ELSE IF is_protected_pattern(cfg, platform, file.name)
      THEN [status |-> "PROTECTED", probes |-> {}]
    ELSE IF cfg.check_locks /\ is_locked(platform, env)
      THEN [status |-> "LOCKED", probes |-> {"lock"}]
    ELSE IF cfg.verify_perms /\ ~has_write_permission(env)
      THEN [status |-> "NO_PERMISSION",
            probes |-> (IF cfg.check_locks THEN {"lock"} ELSE {}) \cup {"perm"}]
    ELSE [status |-> "SAFE",
          probes |-> (IF cfg.check_locks THEN {"lock"} ELSE {})
                         \cup (IF cfg.verify_perms THEN {"perm"} ELSE {})]

\* the directories and the names of the files that are verified
SafetyDirs == { <<"/", "s">>, <<"/", "s", "s">>, <<"/", "t">> }

SafetyNames == { <<"a">>, <<"a", ".", "X">>, <<".", "x">>, <<"X", "a">> }

SafetyFiles ==
    { [path |-> d \o <<"/">> \o n, name |-> n] : d \in SafetyDirs, n \in SafetyNames }

SafetyConfigs ==
    [protected_paths : { {}, { <<"/", "s", "/">> } },
     protected_extensions : { {}, { <<".", "x">> } },
     protected_patterns : { {}, { <<"x", "*">> }, { <<"?", "a">> } },
     check_locks : BOOLEAN,
     verify_perms : BOOLEAN]

SafetyEnvs == [open_fails : BOOLEAN, lsof : LsofOutcomes, writable : BOOLEAN]

NoVerdict == [status |-> "none", probes |-> {}]

SafetyInit ==
    /\ sfile \in SafetyFiles
    /\ sconfig \in SafetyConfigs
    /\ splatform \in Platforms
    /\ senv \in SafetyEnvs
    /\ sverdict = NoVerdict

\* SafetyChecker(config).verify_file(file)
VerifyFile ==
    /\ sverdict = NoVerdict
    /\ sverdict' = verify_file(sconfig, splatform, senv, sfile)
    /\ UNCHANGED <<sfile, sconfig, splatform, senv>>

SafetyNext == VerifyFile

(***************************************************************************)
(* Properties of verify_file.                                              *)
(***************************************************************************)
\* the file matches a protected path prefix, a protected extension or a
\* protected filename pattern
MatchesProtection ==
    \/ is_protected_path(sconfig, sfile.path)
    \/ is_protected_extension(sconfig, sfile.name)
    \/ is_protected_pattern(sconfig, splatform, sfile.name)

\* what the lock probe of the platform reports for the file
ProbeReportsHeld == is_locked(splatform, senv)

\* C9 as stated: PROTECTED whenever a protection rule matches, whatever the
\* lock and permission state; otherwise LOCKED if the lock probe reports the
\* file held; otherwise NO_PERMISSION if the file is not writable; otherwise
\* SAFE; no probe is invoked for a file that matches a protection rule.
C9_PrecedenceAsStated ==
    sverdict # NoVerdict =>
        /\ sverdict.status =
              (IF MatchesProtection THEN "PROTECTED"
               ELSE IF ProbeReportsHeld THEN "LOCKED"
               ELSE IF ~senv.writable THEN "NO_PERMISSION"
               ELSE "SAFE")
        /\ MatchesProtection => sverdict.probes = {}

\* C9 amended: PROTECTED whenever a protection rule matches, whatever the lock
\* and permission state; otherwise LOCKED if lock checking is enabled and the
\* lock probe reports the file held; otherwise NO_PERMISSION if permission
\* verification is enabled and the file is not writable; otherwise SAFE; no
\* probe is invoked for a file that matches a protection rule.
C9_Precedence ==
    sverdict # NoVerdict =>
        /\ sverdict.status =
              (IF MatchesProtection THEN "PROTECTED"
               ELSE IF sconfig.check_locks /\ ProbeReportsHeld THEN "LOCKED"
               ELSE IF sconfig.verify_perms /\ ~senv.writable THEN "NO_PERMISSION"
               ELSE "SAFE")
        /\ MatchesProtection => sverdict.probes = {}

\* a file that only a filename pattern protects, held and not writable, with
\* both checks enabled, was verified as PROTECTED
C9_Witness ==
    /\ sverdict.status = "PROTECTED"
    /\ is_protected_pattern(sconfig, splatform, sfile.name)
    /\ ~is_protected_path(sconfig, sfile.path)
    /\ ~is_protected_extension(sconfig, sfile.name)
    /\ sconfig.check_locks /\ sconfig.verify_perms
    /\ ProbeReportsHeld
    /\ ~senv.writable

(***************************************************************************)
(* Part 4  BatchDeleter.delete_with_progress                               *)
(*                                   src/diskcleaner/optimization/delete.py *)
(*                                                                         *)
(* The file system holds six paths:                                        *)
(*   f     a regular file                                                  *)
(*   ro    a regular file without write access (os.access is False)        *)
(*   gone  a path at which nothing exists                                  *)
(*   busy  a regular file whose unlink() raises PermissionError            *)
(*   d     a directory                                                     *)
(*   d_f   a regular file in d                                             *)
(* `present` is the set of the paths that exist.  The list handed to       *)
(* delete_with_progress is any list of these paths, repetitions included.  *)
(* The tiers of batch_config are scaled down to lists of a few files, in   *)
(* the order of the source: the batch of a tier is shorter than the lists  *)
(* of the tier.                                                            *)
(***************************************************************************)
DelPaths == {"f", "ro", "gone", "busy", "d", "d_f"}

DelInputs == UNION { [1..n -> DelPaths] : n \in 0..MaxDelFiles }

\* os.access(file, os.W_OK)
access(fs, p) == p \in fs /\ p # "ro"

\* file.stat().st_size; 0 when stat() raises OSError
stat_size(fs, p) ==
    IF p \notin fs THEN 0
    ELSE IF p = "d_f" THEN 2
    ELSE IF p = "d" THEN 0
    ELSE 1

\* file.is_dir()
del_is_dir(fs, p) == p \in fs /\ p = "d"

\* shutil.rmtree(file) or file.unlink(): whether it raises, and what is left
remove(fs, p) ==
    IF del_is_dir(fs, p) THEN [raised |-> FALSE, fs |-> fs \ {"d", "d_f"}]
    ELSE IF p \notin fs \/ p = "busy" THEN [raised |-> TRUE, fs |-> fs]
    ELSE [raised |-> FALSE, fs |-> fs \ {p}]

RECURSIVE delete_batch_abort(_, _, _)
\* the loop left at the first file that fails
delete_batch_abort(files, fs, acc) ==
    IF files = <<>> THEN acc
    ELSE LET file == Head(files)
         IN  IF ~access(fs, file) \/ remove(fs, file).raised
               THEN [acc EXCEPT !.failed = Append(@, file),
                                !.attempted = Append(@, file)]
               ELSE delete_batch_abort(Tail(files), remove(fs, file).fs,
                        [acc EXCEPT !.success = Append(@, file),
                                    !.size_freed = @ + stat_size(fs, file),
                                    !.attempted = Append(@, file),
                                    !.fs = remove(fs, file).fs])

RECURSIVE delete_batch(_, _, _)
\* BatchDeleter._delete_batch: acc is [success, failed, size_freed] so far,
\* with the files attempted and the file system left
delete_batch(files, fs, acc) ==
    IF files = <<>> THEN acc
    ELSE LET file == Head(files)
         IN  IF ~access(fs, file)
               THEN delete_batch(Tail(files), fs,
                        [acc EXCEPT !.failed = Append(@, file),
                                    !.attempted = Append(@, file)])
             ELSE IF remove(fs, file).raised
               THEN delete_batch(Tail(files), fs,
                        [acc EXCEPT !.failed = Append(@, file),
                                    !.attempted = Append(@, file)])
             ELSE delete_batch(Tail(files), remove(fs, file).fs,
                        [acc EXCEPT !.success = Append(@, file),
                                    !.size_freed = @ + stat_size(fs, file),
                                    !.attempted = Append(@, file),
                                    !.fs = remove(fs, file).fs])

\* the batch size delete_with_progress selects for file_count files
batch_size(file_count) ==
    IF file_count < MediumFrom THEN SmallCount
    ELSE IF file_count < LargeFrom THEN MediumCount
    ELSE LargeCount

NoDeleteResult ==
    [returned |-> FALSE, success |-> <<>>, failed |-> <<>>, total_deleted |-> 0,
     total_failed |-> 0, total_size_freed |-> 0, cancelled |-> FALSE]

DeleteResult(s, f, size, c) ==
    [returned |-> TRUE, success |-> s, failed |-> f, total_deleted |-> Len(s),
     total_failed |-> Len(f), total_size_freed |-> size, cancelled |-> c]

DeleteInit ==
    /\ del_files \in DelInputs
    /\ progress_callback \in BOOLEAN
    /\ present = DelPaths \ {"gone"}
    /\ del_pc = "idle"
    /\ del_i = 0
    /\ success = <<>>
    /\ failed = <<>>
    /\ cancelled = FALSE
    /\ total_size = 0
    /\ attempted = <<>>
    /\ del_result = NoDeleteResult

delInputVars == <<del_files, progress_callback>>

\* delete_with_progress([]): the empty result
DeleteEmpty ==
    /\ del_pc = "idle"
    /\ del_files = <<>>
    /\ del_result' = DeleteResult(<<>>, <<>>, 0, FALSE)
    /\ del_pc' = "done"
    /\ UNCHANGED <<delInputVars, present, del_i, success, failed, cancelled,
                   total_size, attempted>>

\* delete_with_progress(files): up to the loop over the batches
DeleteStart ==
    /\ del_pc = "idle"
    /\ del_files # <<>>
    /\ del_pc' = "loop"
    /\ UNCHANGED <<delInputVars, present, del_i, success, failed, cancelled,
                   total_size, attempted, del_result>>

\* one turn of the loop: the batch at del_i is deleted; ret is what the
\* progress callback returns (FALSE to cancel), there being no call without
\* a callback
DeleteBatch(ret) ==
    /\ del_pc = "loop"
    /\ del_i < Len(del_files)
    /\ (~progress_callback) => ret
    /\ LET size == batch_size(Len(del_files))
           batch == SubSeq(del_files, del_i + 1, Min(del_i + size, Len(del_files)))
           done == delete_batch(batch, present,
                        [success |-> <<>>, failed |-> <<>>, size_freed |-> 0,
                         attempted |-> <<>>, fs |-> present])
       IN  /\ success' = success \o done.success
           /\ failed' = failed \o done.failed
           /\ total_size' = total_size + done.size_freed
           /\ attempted' = attempted \o done.attempted
           /\ present' = done.fs
           /\ IF ret
                THEN /\ del_i' = del_i + size
                     /\ UNCHANGED <<cancelled, del_pc>>
                ELSE /\ cancelled' = TRUE
                     /\ del_pc' = "return"
                     /\ UNCHANGED del_i
    /\ UNCHANGED <<delInputVars, del_result>>

\* the callback let the run go on, or there is no callback
DeleteBatchContinue == DeleteBatch(TRUE)

\* the callback's False noted in `cancelled`, the loop going on all the same
DeleteBatchCancelGoesOn ==
    /\ del_pc = "loop"
    /\ del_i < Len(del_files)
    /\ progress_callback
    /\ LET size == batch_size(Len(del_files))
           batch == SubSeq(del_files, del_i + 1, Min(del_i + size, Len(del_files)))
           done == delete_batch(batch, present,
                        [success |-> <<>>, failed |-> <<>>, size_freed |-> 0,
                         attempted |-> <<>>, fs |-> present])
       IN  /\ success' = success \o done.success
           /\ failed' = failed \o done.failed
           /\ total_size' = total_size + done.size_freed
           /\ attempted' = attempted \o done.attempted
           /\ present' = done.fs
           /\ del_i' = del_i + size
           /\ cancelled' = TRUE
    /\ UNCHANGED <<delInputVars, del_result, del_pc>>

\* the callback returned False
DeleteBatchCancel == DeleteBatch(FALSE)

\* the loop is over: the DeleteResult is built and returned
DeleteReturn ==
    /\ \/ del_pc = "return"
       \/ del_pc = "loop" /\ del_i >= Len(del_files)
    /\ del_result' = DeleteResult(success, failed, total_size, cancelled)
    /\ del_pc' = "done"
    /\ UNCHANGED <<delInputVars, present, del_i, success, failed, cancelled,
                   total_size, attempted>>

DeleteNext ==
    \/ DeleteEmpty
    \/ DeleteStart
    \/ DeleteBatchContinue
    \/ DeleteBatchCancel
    \/ DeleteReturn

(***************************************************************************)
(* Properties of delete_with_progress.                                     *)
(***************************************************************************)
\* the number of entries of the list s that are the path p
Occurrences(s, p) == Cardinality({ i \in 1..Len(s) : s[i] = p })

InList(s, p) == \E i \in 1..Len(s) : s[i] = p

\* C10 as stated: after a synchronous batched delete that is not cancelled,
\* every input path is in exactly one of success and failed, total_deleted +
\* total_failed = len(files), and every file was attempted, whatever failed
\* before it.
C10_ExactlyOneAsStated ==
    (del_result.returned /\ ~del_result.cancelled) =>
        /\ \A p \in DelPaths : InList(del_files, p) =>
              (InList(del_result.success, p) /= InList(del_result.failed, p))
        /\ del_result.total_deleted + del_result.total_failed = Len(del_files)
        /\ attempted = del_files

\* C10 amended: after a synchronous batched delete that is not cancelled,
\* every entry of the input list is in exactly one of success and failed
\* (a path is in the two lists together as often as in the input), so that
\* total_deleted + total_failed = len(files); when the input paths are
\* pairwise distinct no path is in both lists; and every file was attempted in
\* input order, whatever failed before it.
C10_ExactlyOne ==
    (del_result.returned /\ ~del_result.cancelled) =>
        /\ \A p \in DelPaths :
              Occurrences(del_result.success, p) + Occurrences(del_result.failed, p)
                  = Occurrences(del_files, p)
        /\ del_result.total_deleted + del_result.total_failed = Len(del_files)
        /\ del_result.total_deleted = Len(del_result.success)
        /\ del_result.total_failed = Len(del_result.failed)
        /\ (\A p \in DelPaths : Occurrences(del_files, p) <= 1) =>
              \A p \in DelPaths :
                  ~(InList(del_result.success, p) /\ InList(del_result.failed, p))
        /\ attempted = del_files

\* a run over several batches of pairwise distinct paths returned, not
\* cancelled, in which a file failed and a later file of the same batch and a
\* file of a later batch were deleted
C10_Witness ==
    /\ del_result.returned /\ ~del_result.cancelled
    /\ \A p \in DelPaths : Occurrences(del_files, p) <= 1
    /\ batch_size(Len(del_files)) >= 2
    /\ Len(del_files) > batch_size(Len(del_files))
    /\ \E i, j, k \in 1..Len(del_files) :
          /\ i < j /\ j <= batch_size(Len(del_files)) /\ k > batch_size(Len(del_files))
          /\ InList(del_result.failed, del_files[i])
          /\ InList(del_result.success, del_files[j])
          /\ InList(del_result.success, del_files[k])

\* the entries of the batches up to the one the call has reached
BatchesDone == SubSeq(del_files, 1, Min(del_i + batch_size(Len(del_files)), Len(del_files)))

\* C12 (state part): once the callback has returned False after batch k, the
\* files taken up are exactly those of batches 1..k, success and failed
\* together hold exactly these entries, and the result has cancelled = true.
C12_CancelledState ==
    cancelled =>
        /\ attempted = BatchesDone
        /\ \A p \in DelPaths :
              Occurrences(success, p) + Occurrences(failed, p) = Occurrences(BatchesDone, p)
        /\ del_result.returned =>
              /\ del_result.cancelled
              /\ del_result.success = success
              /\ del_result.failed = failed

\* C12: in synchronous batched deletion, once the progress callback has
\* returned False after batch k, no file of a later batch is deleted or
\* attempted, the result has cancelled = true, and success together with
\* failed hold exactly the files of batches 1..k.
C12_CancelStops ==
    /\ []C12_CancelledState
    /\ [][cancelled => UNCHANGED <<present, attempted, success, failed>>]_vars

\* a run was cancelled after its second batch and has returned, a later
\* batch holding a file that is still there
C12_Witness ==
    /\ del_result.returned /\ del_result.cancelled
    /\ del_i > 0
    /\ Len(del_files) > Len(BatchesDone)
    /\ del_files[Len(del_files)] = "f" /\ "f" \in present
    /\ Len(del_result.success) >= 1

(***************************************************************************)
(* Part 5  Deleting again: a second delete_with_progress over the same     *)
(* list, and SmartDeleter.delete_file, on the file system of Part 4.       *)
(*                                   src/diskcleaner/optimization/delete.py *)
(*                                                                         *)
(* Of the six paths, d_f is the file larger than a threshold of 1, busy    *)
(* lies under a system location ("system" is part of its path) and ro      *)
(* under a user-data location ("home" is part of its path).  The           *)
(* environment of SmartDeleter is [os_name, send2trash]:                   *)
(*   send2trash  "ok" the module moves the path to the trash, "absent" the *)
(*               import raises ImportError, "fails" send2trash() raises    *)
(***************************************************************************)
UnderSystem == {"busy"}

UnderUserData == {"ro"}

SmartConfigs == [use_recycle_bin : BOOLEAN, large_file_threshold : {1, 50}]

SmartEnvs == [os_name : {"nt", "posix"}, send2trash : {"ok", "absent", "fails"}]

\* SmartDeleter._should_use_recycle_bin
should_use_recycle_bin(cfg, fs, p) ==
    IF stat_size(fs, p) > cfg.large_file_threshold THEN TRUE
    ELSE IF p \in UnderSystem THEN TRUE
    ELSE IF p \in UnderUserData THEN TRUE
    ELSE FALSE

\* the direct delete of _move_to_recycle_bin and of delete_file, inside a try
\* whose handler returns False
direct_delete(fs, trashed, p) ==
    [ret |-> ~remove(fs, p).raised, fs |-> remove(fs, p).fs, trash |-> trashed]

\* SmartDeleter._move_to_recycle_bin: send2trash where it can be imported and
\* works; a direct delete when the import fails (ImportError, caught at once
\* on POSIX and by the outer handler on Windows) or send2trash raises
move_to_recycle_bin(env, fs, trashed, p) ==
    IF env.send2trash = "ok"
      THEN [ret |-> TRUE,
            fs |-> IF p = "d" THEN fs \ {"d", "d_f"} ELSE fs \ {p},
            trash |-> trashed \cup {p}]
      ELSE direct_delete(fs, trashed, p)

\* delete_file as it would be without the test of file.exists(): a path that
\* is not there counts as deleted
smart_delete_file_blind(cfg, env, fs, trashed, p) ==
    IF p \notin fs THEN [ret |-> TRUE, fs |-> fs, trash |-> trashed]
    ELSE IF cfg.use_recycle_bin /\ should_use_recycle_bin(cfg, fs, p)
      THEN move_to_recycle_bin(env, fs, trashed, p)
    ELSE direct_delete(fs, trashed, p)

\* SmartDeleter.delete_file: what it returns, the file system and the trash
\* it leaves
smart_delete_file(cfg, env, fs, trashed, p) ==
    IF p \notin fs THEN [ret |-> FALSE, fs |-> fs, trash |-> trashed]
    ELSE IF cfg.use_recycle_bin /\ should_use_recycle_bin(cfg, fs, p)
      THEN move_to_recycle_bin(env, fs, trashed, p)
    ELSE direct_delete(fs, trashed, p)

RedeleteInit ==
    /\ DeleteInit
    /\ Len(del_files) <= MaxRedelFiles
    /\ present0 = present
    /\ del_calls = 0
    /\ smart_cfg \in SmartConfigs
    /\ smart_env \in SmartEnvs
    /\ trash = {}
    /\ smart_log = <<>>

\* a step of delete_with_progress; the step that enters the call records the
\* file system it finds
RedeleteStep ==
    /\ DeleteNext
    /\ present0' = IF del_pc = "idle" THEN present ELSE present0
    /\ del_calls' = IF del_pc = "idle" THEN del_calls + 1 ELSE del_calls
    /\ UNCHANGED <<smart_cfg, smart_env, trash, smart_log>>

\* the caller hands the same list to delete_with_progress once more
DeleteAgain ==
    /\ del_pc = "done"
    /\ del_calls < MaxDelCalls
    /\ del_pc' = "idle"
    /\ del_i' = 0
    /\ success' = <<>>
    /\ failed' = <<>>
    /\ cancelled' = FALSE
    /\ total_size' = 0
    /\ attempted' = <<>>
    /\ del_result' = NoDeleteResult
    /\ UNCHANGED <<delInputVars, present, present0, del_calls, smart_cfg, smart_env,
                   trash, smart_log>>

\* SmartDeleter(use_recycle_bin, large_file_threshold).delete_file(p), between
\* two batched deletes
SmartDeleteFile(p) ==
    /\ del_pc = "idle"
    /\ del_calls >= 1
    /\ Len(smart_log) < MaxSmartCalls
    /\ LET r == smart_delete_file(smart_cfg, smart_env, present, trash, p)
       IN  /\ present' = r.fs
           /\ trash' = r.trash
           /\ smart_log' = Append(smart_log,
                                  [path |-> p, existed |-> p \in present, ret |-> r.ret])
    /\ UNCHANGED <<delInputVars, del_pc, del_i, success, failed, cancelled,
                   total_size, attempted, del_result, present0, del_calls,
                   smart_cfg, smart_env>>

RedeleteNext ==
    \/ RedeleteStep
    \/ DeleteAgain
    \/ \E p \in DelPaths : SmartDeleteFile(p)

(***************************************************************************)
(* Properties of deleting a path that is not there.                        *)
(***************************************************************************)
RECURSIVE SizeOf(_)
\* the sizes of the entries of a list of paths, added up
SizeOf(s) == IF s = <<>> THEN 0 ELSE stat_size(DelPaths, Head(s)) + SizeOf(Tail(s))

async_max_workers == 2

AsyncWorkers == 1..async_max_workers

AsyncInputs == UNION { [1..n -> {"ok", "fail"}] : n \in 0..MaxAsyncFiles }

\* batches = [files[i:i + batch_size] ...]: the number of batches
batch_count(files) == (Len(files) + async_batch_size - 1) \div async_batch_size

\* the positions in the list of the files of batch b (counted from 0)
batch_first(b) == b * async_batch_size + 1

batch_last(files, b) == Min((b + 1) * async_batch_size, Len(files))

AsyncBatches == 0..(batch_count(a_files) - 1)

IdleWorker == [pc |-> "idle", batch |-> 0, file |-> 0, deleted |-> 0, failed |-> 0]

AsyncInit ==
    /\ a_files \in AsyncInputs
    /\ a_stop \in BOOLEAN
    /\ a_pc = "requested"
    /\ a_next = 0
    /\ a_state = [b \in AsyncBatches |-> "unsubmitted"]
    /\ a_completed = <<>>
    /\ a_results = [b \in AsyncBatches |-> [deleted |-> 0, failed |-> 0]]
    /\ a_totals = [deleted |-> 0, failed |-> 0]
    /\ a_worker = [w \in AsyncWorkers |-> IdleWorker]
    /\ a_gone = {}
    /\ a_cancel_issued = FALSE
    /\ a_after = [w \in AsyncWorkers |-> 0]

\* delete.py 257-258: nothing to delete
AsyncEmpty ==
    /\ a_pc = "requested"
    /\ a_files = <<>>
    /\ a_pc' = "done"
    /\ UNCHANGED <<a_files, a_stop, a_next, a_state, a_completed, a_results,
                   a_totals, a_worker, a_gone, a_cancel_issued, a_after>>

\* delete.py 260-265: the first next() runs the body up to the submit loop:
\* the executor is created and stop_event is cleared, whatever set it
AsyncStart ==
    /\ a_pc = "requested"
    /\ a_files # <<>>
    /\ a_stop' = FALSE
    /\ a_pc' = "submit"
    /\ UNCHANGED <<a_files, a_next, a_state, a_completed, a_results,
                   a_totals, a_worker, a_gone, a_cancel_issued, a_after>>

\* delete.py 269-272: one turn of the submit loop; a batch is submitted
\* unless stop_event is set
AsyncSubmit ==
    /\ a_pc = "submit"
    /\ a_next < batch_count(a_files)
    /\ a_state' = IF a_stop THEN a_state ELSE [a_state EXCEPT ![a_next] = "queued"]
    /\ a_next' = a_next + 1
    /\ UNCHANGED <<a_files, a_stop, a_pc, a_completed, a_results, a_totals,
                   a_worker, a_gone, a_cancel_issued, a_after>>

\* delete.py 274-280: the submit loop is over, as_completed(futures) begins
AsyncSubmitted ==
    /\ a_pc = "submit"
    /\ a_next >= batch_count(a_files)
    /\ a_pc' = "collect"
    /\ UNCHANGED <<a_files, a_stop, a_next, a_state, a_completed, a_results,
                   a_totals, a_worker, a_gone, a_cancel_issued, a_after>>

\* delete.py 280-311: as_completed hands over the next finished future; with
\* stop_event set it is skipped, otherwise its result is added to the totals
\* (and the ProgressUpdate fails to be built)
AsyncCollect ==
    /\ a_pc = "collect"
    /\ a_completed # <<>>
    /\ LET b == Head(a_completed)
       IN  /\ a_completed' = Tail(a_completed)
           /\ a_state' = [a_state EXCEPT ![b] = "collected"]
           /\ a_totals' = IF a_stop THEN a_totals
                          ELSE [deleted |-> a_totals.deleted + a_results[b].deleted,
                                failed |-> a_totals.failed + a_results[b].failed]
    /\ UNCHANGED <<a_files, a_stop, a_pc, a_next, a_results, a_worker, a_gone,
                   a_cancel_issued, a_after>>

\* delete.py 313-318: every submitted future has been handed over; stop_event
\* is cleared and the executor shut down
AsyncEnd ==
    /\ a_pc = "collect"
    /\ \A b \in AsyncBatches : a_state[b] \in {"unsubmitted", "collected"}
    /\ a_stop' = FALSE
    /\ a_pc' = "done"
    /\ UNCHANGED <<a_files, a_next, a_state, a_completed, a_results, a_totals,
                   a_worker, a_gone, a_cancel_issued, a_after>>

\* a thread of the executor takes the batch submitted first
AsyncTake(w) ==
    /\ a_worker[w].pc = "idle"
    /\ \E b \in AsyncBatches :
        /\ a_state[b] = "queued"
        /\ \A c \in AsyncBatches : c < b => a_state[c] # "queued"
        /\ a_state' = [a_state EXCEPT ![b] = "running"]
        /\ a_worker' = [a_worker EXCEPT ![w] =
               [pc |-> "poll", batch |-> b, file |-> batch_first(b),
                deleted |-> 0, failed |-> 0]]
    /\ UNCHANGED <<a_files, a_stop, a_pc, a_next, a_completed, a_results,
                   a_totals, a_gone, a_cancel_issued, a_after>>

\* delete.py 335-337: the head of the loop over the batch: the next file is
\* taken up unless stop_event is set
AsyncPoll(w) ==
    /\ a_worker[w].pc = "poll"
    /\ a_worker[w].file <= batch_last(a_files, a_worker[w].batch)
    /\ ~a_stop
    /\ a_worker' = [a_worker EXCEPT ![w].pc = "delete"]
    /\ UNCHANGED <<a_files, a_stop, a_pc, a_next, a_state, a_completed, a_results,
                   a_totals, a_gone, a_cancel_issued, a_after>>

\* delete.py 339-356: the file is deleted, or its failure counted
AsyncDelete(w) ==
    /\ a_worker[w].pc = "delete"
    /\ LET f == a_worker[w].file
       IN  /\ a_worker' = [a_worker EXCEPT
                 ![w].pc = "poll",
                 ![w].file = f + 1,
                 ![w].deleted = @ + (IF a_files[f] = "ok" THEN 1 ELSE 0),
                 ![w].failed = @ + (IF a_files[f] = "ok" THEN 0 ELSE 1)]
           /\ a_gone' = IF a_files[f] = "ok" THEN a_gone \cup {f} ELSE a_gone
    /\ a_after' = [a_after EXCEPT ![w] = IF a_cancel_issued THEN @ + 1 ELSE @]
    /\ UNCHANGED <<a_files, a_stop, a_pc, a_next, a_state, a_completed, a_results,
                   a_totals, a_cancel_issued>>

\* delete.py 336-337, 358-363: the batch is exhausted or stop_event is set:
\* the statistics are returned and the future is done
AsyncReturn(w) ==
    /\ a_worker[w].pc = "poll"
    /\ a_stop \/ a_worker[w].file > batch_last(a_files, a_worker[w].batch)
    /\ a_results' = [a_results EXCEPT ![a_worker[w].batch] =
                        [deleted |-> a_worker[w].deleted, failed |-> a_worker[w].failed]]
    /\ a_state' = [a_state EXCEPT ![a_worker[w].batch] = "done"]
    /\ a_completed' = Append(a_completed, a_worker[w].batch)
    /\ a_worker' = [a_worker EXCEPT ![w] = IdleWorker]
    /\ UNCHANGED <<a_files, a_stop, a_pc, a_next, a_totals, a_gone,
                   a_cancel_issued, a_after>>

\* AsyncDeleter.cancel(), called once the delete has been requested
AsyncCancel ==
    /\ ~a_cancel_issued
    /\ a_pc # "done"
    /\ a_stop' = TRUE
    /\ a_cancel_issued' = TRUE
    /\ UNCHANGED <<a_files, a_pc, a_next, a_state, a_completed, a_results,
                   a_totals, a_worker, a_gone, a_after>>

AsyncNext ==
    \/ AsyncEmpty
    \/ AsyncStart
    \/ AsyncSubmit
    \/ AsyncSubmitted
    \/ AsyncCollect
    \/ AsyncEnd
    \/ AsyncCancel
    \/ \E w \in AsyncWorkers :
          AsyncTake(w) \/ AsyncPoll(w) \/ AsyncDelete(w) \/ AsyncReturn(w)

(***************************************************************************)
(* Properties of delete_async.                                             *)
(***************************************************************************)
\* C13: after cancel() on a requested asynchronous delete, every worker stops
\* at its next poll of the flag: a worker deletes at most the one file it had
\* taken up before the cancel, and batches not yet started delete nothing; a
\* cancel() issued after the request is never lost.
C13_CancelObserved ==
    a_cancel_issued => \A w \in AsyncWorkers : a_after[w] <= 1

(***************************************************************************)
(* Part 7  The snapshot caches                                             *)
(*   IncrementalCache  src/diskcleaner/optimization/scan.py                *)
(*   CacheManager      src/diskcleaner/core/cache.py                       *)
(*                                                                         *)
(* Time is counted in days.  A root is a number; a FileInfo is [path,      *)
(* size].  The cache directory holds at most one file for each cache path; *)
(* a file is [mtime, doc, defect]: doc is the dict json.dump wrote, and    *)
(* defect says what has happened to the file since:                        *)
(*   none           nothing                                                *)
(*   unreadable     open() raises PermissionError                          *)
(*   garbage        the text is no JSON                                    *)
(*   missing_list   the key "items" (or "files") is gone                   *)
(*   missing_field  the key "timestamp" is gone                            *)
(*   extra_field    a key "extra" was added                                *)
(*   wrong_type     the value of "items" (or "files") is a number          *)
(***************************************************************************)
\* the scan roots that snapshots are cached for
CacheRoots == {1, 2}

\* the values of ttl_days / max_age_days tried
TtlDays == {0, 1}

CacheImpls == {"incremental", "manager"}

Defects == {"unreadable", "garbage", "missing_list", "missing_field",
            "extra_field", "wrong_type"}

NoSnapshot == [path |-> 0]

NoFile == [mtime |-> 0, defect |-> "absent"]

\* the lists of FileInfo that snapshots hold
SnapshotItems ==
    { <<[path |-> 1, size |-> 1]>>,
      <<[path |-> 1, size |-> 1], [path |-> 2, size |-> 2]>> }

RECURSIVE SumSizes(_)
SumSizes(items) == IF items = <<>> THEN 0 ELSE Head(items).size + SumSizes(Tail(items))

\* the ScanSnapshot of optimization/scan.py that a scan of root r builds at
\* time t
IncSnapshot(r, t, items) ==
    [path |-> r, timestamp |-> t, items |-> items,
     total_count |-> Len(items), total_size |-> SumSizes(items)]

\* the ScanSnapshot of core/cache.py that a scan of root r builds at time t
MgrSnapshot(r, t, items) ==
    [path |-> r, timestamp |-> t, files |-> items,
     total_size |-> SumSizes(items), file_count |-> Len(items)]

\* a JSON array and a JSON number, as json.load hands them over
JsonList(seq) == [list |-> seq]

JsonNumber(n) == [number |-> n]

IsJsonList(v) == "list" \in DOMAIN v

\* ScanSnapshot.to_dict of optimization/scan.py
inc_to_dict(s) ==
    [path |-> s.path, timestamp |-> s.timestamp, items |-> JsonList(s.items),
     total_count |-> s.total_count, total_size |-> s.total_size]

\* ScanSnapshot.to_dict of core/cache.py
mgr_to_dict(s) ==
    [path |-> s.path, timestamp |-> s.timestamp, files |-> JsonList(s.files),
     total_size |-> s.total_size, file_count |-> s.file_count]

\* the key that holds the list of files in the dict of an implementation
ListKey(impl) == IF impl = "incremental" THEN "items" ELSE "files"

\* json.load of a file: what it raises and the dict it yields
json_load(impl, file) ==
    IF file.defect = "unreadable" THEN [err |-> "IOError", data |-> <<>>]
    ELSE IF file.defect = "garbage" THEN [err |-> "JSONDecodeError", data |-> <<>>]
    ELSE IF file.defect = "missing_list"
      THEN [err |-> "none",
            data |-> [k \in DOMAIN file.doc \ {ListKey(impl)} |-> file.doc[k]]]
    ELSE IF file.defect = "missing_field"
      THEN [err |-> "none",
            data |-> [k \in DOMAIN file.doc \ {"timestamp"} |-> file.doc[k]]]
    ELSE IF file.defect = "extra_field"
      THEN [err |-> "none",
            data |-> [k \in DOMAIN file.doc \cup {"extra"} |->
                         IF k = "extra" THEN 0 ELSE file.doc[k]]]
    ELSE IF file.defect = "wrong_type"
      THEN [err |-> "none",
            data |-> [k \in DOMAIN file.doc |->
                         IF k = ListKey(impl) THEN JsonNumber(0)
                         ELSE file.doc[k]]]
    ELSE [err |-> "none", data |-> file.doc]

\* ScanSnapshot.from_dict of optimization/scan.py: data["items"] is read
\* first, then cls(**data) wants exactly the fields of the dataclass
inc_from_dict(data) ==
    IF "items" \notin DOMAIN data THEN [err |-> "KeyError", snap |-> NoSnapshot]
    ELSE IF ~IsJsonList(data.items) THEN [err |-> "TypeError", snap |-> NoSnapshot]
    ELSE IF DOMAIN data # {"path", "timestamp", "items", "total_count", "total_size"}
      THEN [err |-> "TypeError", snap |-> NoSnapshot]
    ELSE [err |-> "none",
          snap |-> [path |-> data.path, timestamp |-> data.timestamp,
                    items |-> data.items.list, total_count |-> data.total_count,
                    total_size |-> data.total_size]]

\* ScanSnapshot.from_dict of core/cache.py: path and timestamp are required,
\* the other keys have defaults, further keys are ignored
mgr_from_dict(data) ==
    IF "path" \notin DOMAIN data \/ "timestamp" \notin DOMAIN data
      THEN [err |-> "KeyError", snap |-> NoSnapshot]
    ELSE IF "files" \in DOMAIN data /\ ~IsJsonList(data.files)
      THEN [err |-> "TypeError", snap |-> NoSnapshot]
    ELSE [err |-> "none",
          snap |-> [path |-> data.path, timestamp |-> data.timestamp,
                    files |-> IF "files" \in DOMAIN data THEN data.files.list ELSE <<>>,
                    total_size |-> IF "total_size" \in DOMAIN data
                                     THEN data.total_size ELSE 0,
                    file_count |-> IF "file_count" \in DOMAIN data
                                     THEN data.file_count ELSE 0]]

\* _get_cache_path as it would be if every root got the same file name
cache_path_shared(r) == 1

\* _get_cache_path: the MD5 digest of the path names the file; different
\* roots have different digests
cache_path(r) == r

\* IncrementalCache._is_valid at time t
is_valid(ttl, t, snapshot) == (t - snapshot.timestamp) < ttl

\* IncrementalCache.get_cached_snapshot(r) at time t: what it returns or
\* raises, the memory layer and the files it leaves, whether it was served by
\* the memory layer, and the defect of the file it read
inc_get(ttl, t, memory, files, r) ==
    LET hit == memory[r] # NoSnapshot /\ is_valid(ttl, t, memory[r])
        mem1 == IF memory[r] # NoSnapshot /\ ~hit
                  THEN [memory EXCEPT ![r] = NoSnapshot] ELSE memory
        file == files[cache_path(r)]
        loaded == json_load("incremental", file)
        parsed == inc_from_dict(loaded.data)
        miss == [ret |-> NoSnapshot, raised |-> FALSE, memory |-> mem1,
                 files |-> files, from |-> "disk", read |-> file.defect]
    IN  IF hit
          THEN [ret |-> memory[r], raised |-> FALSE, memory |-> memory,
                files |-> files, from |-> "memory", read |-> "absent"]
        ELSE IF file = NoFile THEN miss
        ELSE IF loaded.err # "none" THEN miss
        ELSE IF parsed.err = "KeyError" THEN miss
        ELSE IF parsed.err = "TypeError" THEN [miss EXCEPT !.raised = TRUE]
        ELSE IF ~is_valid(ttl, t, parsed.snap)
          THEN [miss EXCEPT !.files = [files EXCEPT ![cache_path(r)] = NoFile]]
        ELSE [miss EXCEPT !.ret = parsed.snap,
                          !.memory = [mem1 EXCEPT ![r] = parsed.snap]]

\* CacheManager.get_scan_cache(r, max_age_days) at time t
mgr_get(max_age, t, memory, files, r) ==
    LET file == files[cache_path(r)]
        loaded == json_load("manager", file)
        parsed == mgr_from_dict(loaded.data)
        miss == [ret |-> NoSnapshot, raised |-> FALSE, memory |-> memory,
                 files |-> files, from |-> "disk", read |-> file.defect]
        deleted == [miss EXCEPT !.files = [files EXCEPT ![cache_path(r)] = NoFile]]
    IN  IF file = NoFile THEN miss
        ELSE IF (t - file.mtime) > max_age THEN deleted
        ELSE IF loaded.err = "IOError" THEN [miss EXCEPT !.raised = TRUE]
        ELSE IF loaded.err = "JSONDecodeError" THEN deleted
        ELSE IF parsed.err = "KeyError" THEN deleted
        ELSE IF parsed.err = "TypeError" THEN [miss EXCEPT !.raised = TRUE]
        ELSE [miss EXCEPT !.ret = parsed.snap]

NoGet == [root |-> 0]

CacheInit ==
    /\ c_impl \in CacheImpls
    /\ c_ttl \in TtlDays
    /\ c_now = 0
    /\ c_memory = [r \in CacheRoots |-> NoSnapshot]
    /\ c_files = [p \in CacheRoots |-> NoFile]
    /\ c_put = [r \in CacheRoots |-> NoSnapshot]
    /\ c_put_here = [r \in CacheRoots |-> FALSE]
    /\ c_stored = [r \in CacheRoots |-> FALSE]
    /\ c_got = NoGet

cacheConfig == <<c_impl, c_ttl>>

\* save_snapshot(r, snapshot) / save_scan_cache(r, snapshot), for the
\* snapshot of a scan just made; the file is written unless open() is refused
CacheSave(r, items, written) ==
    /\ LET s == IF c_impl = "incremental" THEN IncSnapshot(r, c_now, items)
                ELSE MgrSnapshot(r, c_now, items)
           doc == IF c_impl = "incremental" THEN inc_to_dict(s) ELSE mgr_to_dict(s)
       IN  /\ c_memory' = IF c_impl = "incremental"
                            THEN [c_memory EXCEPT ![r] = s] ELSE c_memory
           /\ c_files' = IF written
                           THEN [c_files EXCEPT ![cache_path(r)] =
                                    [mtime |-> c_now, doc |-> doc, defect |-> "none"]]
                           ELSE c_files
           /\ c_put' = [c_put EXCEPT ![r] = s]
    /\ c_put_here' = [c_put_here EXCEPT ![r] = TRUE]
    /\ c_stored' = [c_stored EXCEPT ![r] = written]
    /\ c_got' = NoGet
    /\ UNCHANGED <<cacheConfig, c_now>>

\* get_cached_snapshot(r) / get_scan_cache(r, max_age_days)
CacheGet(r) ==
    /\ LET g == IF c_impl = "incremental"
                  THEN inc_get(c_ttl, c_now, c_memory, c_files, r)
                  ELSE mgr_get(c_ttl, c_now, c_memory, c_files, r)
       IN  /\ c_memory' = g.memory
           /\ c_files' = g.files
           /\ c_got' = [root |-> r, ret |-> g.ret, raised |-> g.raised,
                        from |-> g.from, read |-> g.read]
    /\ UNCHANGED <<cacheConfig, c_now, c_put, c_put_here, c_stored>>

\* a new process: a fresh cache object over the same cache directory
CacheFresh ==
    /\ \E r \in CacheRoots : c_put_here[r] \/ c_memory[r] # NoSnapshot
    /\ c_memory' = [r \in CacheRoots |-> NoSnapshot]
    /\ c_put_here' = [r \in CacheRoots |-> FALSE]
    /\ c_got' = NoGet
    /\ UNCHANGED <<cacheConfig, c_now, c_files, c_put, c_stored>>

\* something outside the program damages a cache file (one damaged file at a
\* time)
CacheDamage(p, defect) ==
    /\ c_files[p] # NoFile
    /\ \A q \in CacheRoots : c_files[q].defect \in {"absent", "none"}
    /\ c_files' = [c_files EXCEPT ![p].defect = defect]
    /\ c_stored' = [r \in CacheRoots |-> c_stored[r] /\ cache_path(r) # p]
    /\ c_got' = NoGet
    /\ UNCHANGED <<cacheConfig, c_now, c_memory, c_put, c_put_here>>

\* a day passes
CacheTick ==
    /\ c_now < MaxTime
    /\ c_now' = c_now + 1
    /\ c_got' = NoGet
    /\ UNCHANGED <<cacheConfig, c_memory, c_files, c_put, c_put_here, c_stored>>

CacheNext ==
    \/ \E r \in CacheRoots, items \in SnapshotItems, written \in BOOLEAN :
          CacheSave(r, items, written)
    \/ \E r \in CacheRoots : CacheGet(r)
    \/ CacheFresh
    \/ \E p \in CacheRoots, defect \in Defects : CacheDamage(p, defect)
    \/ CacheTick

\* ---- claims about the snapshot caches

\* the list of FileInfo, the count and the size a snapshot holds
SnapList(s) == IF c_impl = "incremental" THEN s.items ELSE s.files

SnapCount(s) == IF c_impl = "incremental" THEN s.total_count ELSE s.file_count

SnapPaths(s) == [i \in DOMAIN SnapList(s) |-> SnapList(s)[i].path]

SameContent(a, b) ==
    /\ SnapCount(a) = SnapCount(b)
    /\ a.total_size = b.total_size
    /\ SnapPaths(a) = SnapPaths(b)

\* the get just made was for root r, which has a snapshot saved
GotFor(r) == c_got # NoGet /\ c_got.root = r /\ c_put[r] # NoSnapshot

\* the age of the snapshot last saved for r
PutAge(r) == c_now - c_put[r].timestamp

\* C14: a get for r made before the TTL of the snapshot s last saved for r is
\* reached returns the count, the size and the paths of s, when the cache
\* object that saved s serves it from its memory layer and when any cache
\* object reads the file that the save wrote; saves for other roots and
\* earlier saves for r make no difference.
C14_RoundTrip ==
    \A r \in CacheRoots :
        ( /\ GotFor(r)
          /\ PutAge(r) < c_ttl
          /\ \/ c_impl = "incremental" /\ c_put_here[r]
             \/ c_stored[r] )
        => /\ ~c_got.raised
           /\ c_got.ret # NoSnapshot
           /\ SameContent(c_got.ret, c_put[r])

\* a fresh cache object has read back, from the file, the second snapshot
\* saved for root 1, after a save for root 2
C14_Witness ==
    /\ GotFor(1)
    /\ c_got.from = "disk"
    /\ ~c_put_here[1]
    /\ c_stored[1]
    /\ c_put[2] # NoSnapshot
    /\ c_put[2].timestamp >= c_put[1].timestamp
    /\ SnapCount(c_put[2]) # SnapCount(c_put[1])
    /\ c_got.ret # NoSnapshot
    /\ SameContent(c_got.ret, c_put[1])

\* C15: with a TTL of 0 days a get returns none, however soon after the save
\* it is made.
C15_ZeroTtlExpired ==
    \A r \in CacheRoots :
        (GotFor(r) /\ c_ttl = 0 /\ c_stored[r]) => c_got.ret = NoSnapshot

\* C16: a get that finds the cache file unreadable or malformed returns none,
\* raises nothing and leaves no file behind.
C16_MalformedIsMiss ==
    (c_got # NoGet /\ c_got.read \in Defects)
    => /\ c_got.ret = NoSnapshot
       /\ ~c_got.raised
       /\ c_files[cache_path(c_got.root)] = NoFile

\* C19: the memory layer holds fewer snapshots than there are roots in use.
C19_MemoryBounded ==
    Cardinality({r \in CacheRoots : c_memory[r] # NoSnapshot}) < Cardinality(CacheRoots)

(***************************************************************************)
(* Part 8  DirectoryScanner.scan_incremental                               *)
(*         src/diskcleaner/core/scanner.py                                 *)
(*                                                                         *)
(* A file is [path, size, mtime, inode]; inode 0 stands for None.  The     *)
(* cached snapshot and the enumeration of scan_generator are lists of such *)
(* records with distinct paths, in path order.                             *)
(***************************************************************************)
IncPaths == 1..MaxIncPaths

\* the records a path can have
IncRecords(p) == [path : {p}, size : {1, 2}, mtime : {1, 2}, inode : {0, 1, 2}]

\* the lists of records, with distinct ascending paths, over the paths from p on
RECURSIVE IncListsFrom(_)
IncListsFrom(p) ==
    IF p > MaxIncPaths THEN { <<>> }
    ELSE LET rest == IncListsFrom(p + 1)
         IN  rest \cup { <<r>> \o l : r \in IncRecords(p), l \in rest }

IncLists == IncListsFrom(1)

\* get_scan_cache returned None
NoCache == << [path |-> 0, size |-> 0, mtime |-> 0, inode |-> 0] >>

NoIncResult == [returned |-> FALSE]

\* CacheManager.is_file_changed
is_file_changed(current, cached) ==
    IF current.size # cached.size THEN TRUE
    ELSE IF current.mtime # cached.mtime THEN TRUE
    ELSE IF current.inode # 0 /\ cached.inode # 0 /\ current.inode # cached.inode
      THEN TRUE
    ELSE FALSE

\* the paths of a list of records, in order
PathList(l) == [i \in DOMAIN l |-> l[i].path]

\* cached_files.get(path): the cached record of a path, <<>> for None
cached_get(cached, path) ==
    LET hits == {i \in DOMAIN cached : cached[i].path = path}
    IN  IF hits = {} THEN <<>> ELSE cached[CHOOSE i \in hits : TRUE]

\* the loop of scan_incremental over the enumeration, from position i on:
\* the lists new_files and changed_files
RECURSIVE classify(_, _, _, _)
classify(current, cached, i, acc) ==
    IF i > Len(current) THEN acc
    ELSE LET f == current[i]
             c == cached_get(cached, f.path)
         IN  classify(current, cached, i + 1,
                 IF c = <<>>
                   THEN [acc EXCEPT !.new_files = Append(@, f.path)]
                 ELSE IF is_file_changed(f, c)
                   THEN [acc EXCEPT !.changed_files = Append(@, f.path)]
                 ELSE acc)

\* the list deleted_files that scan_incremental builds
deleted_files(current, cached) ==
    LET current_paths == {current[i].path : i \in DOMAIN current}
    IN  SelectSeq(PathList(cached), LAMBDA p : p \notin current_paths)

IncInit ==
    /\ i_cached \in IncLists \cup {NoCache}
    /\ i_current \in IncLists
    /\ i_deleted = <<>>
    /\ i_saved = NoCache
    /\ i_result = NoIncResult

\* scan_incremental when get_scan_cache returned no snapshot: a full scan
IncrementalCold ==
    /\ ~i_result.returned
    /\ i_cached = NoCache
    /\ i_result' = [returned |-> TRUE, all_files |-> i_current,
                    new_files |-> i_current, changed_files |-> <<>>]
    /\ i_saved' = i_current
    /\ UNCHANGED <<i_cached, i_current, i_deleted>>

\* scan_incremental against a cached snapshot
IncrementalWarm ==
    /\ ~i_result.returned
    /\ i_cached # NoCache
    /\ LET lists == classify(i_current, i_cached, 1,
                             [new_files |-> <<>>, changed_files |-> <<>>])
       IN  i_result' = [returned |-> TRUE, all_files |-> i_current,
                        new_files |-> lists.new_files,
                        changed_files |-> lists.changed_files]
    /\ i_deleted' = deleted_files(i_current, i_cached)
    /\ i_saved' = i_current
    /\ UNCHANGED <<i_cached, i_current>>

IncNext == IncrementalCold \/ IncrementalWarm

\* ---- claims about scan_incremental

ToSet(l) == {l[i] : i \in DOMAIN l}

CachedPaths == ToSet(PathList(i_cached))

CurrentPaths == ToSet(PathList(i_current))

\* the record of path p in a list that holds p
RecordOf(l, p) == l[CHOOSE i \in DOMAIN l : l[i].path = p]

ChangedAsStated(p) ==
    LET f == RecordOf(i_current, p)
        c == RecordOf(i_cached, p)
    IN  \/ f.size # c.size
        \/ f.mtime # c.mtime
        \/ f.inode # 0 /\ c.inode # 0 /\ f.inode # c.inode

\* the classification of the enumerated paths, as the claim states it
IncClassified ==
    /\ ToSet(i_result.new_files) = CurrentPaths \ CachedPaths
    /\ ToSet(i_result.changed_files) =
           {p \in CurrentPaths \cap CachedPaths : ChangedAsStated(p)}
    /\ \A p \in IncPaths :
           Cardinality({i \in DOMAIN i_result.new_files : i_result.new_files[i] = p})
           + Cardinality({i \in DOMAIN i_result.changed_files :
                             i_result.changed_files[i] = p}) <= 1

\* C17: an incremental scan against a cached snapshot classifies every
\* enumerated path as exactly one of new, changed and unchanged, and its result
\* reports as deleted exactly the cached paths that were not enumerated.
C17_DiffReported ==
    (i_result.returned /\ i_cached # NoCache)
    => /\ IncClassified
       /\ "deleted_files" \in DOMAIN i_result
       /\ ToSet(i_result.deleted_files) = CachedPaths \ CurrentPaths

(***************************************************************************)
(* Part 9  HashCache               src/diskcleaner/optimization/hash.py    *)
(*                                                                         *)
(* A key (str(file), st_size, st_mtime) is a number; the cache is the list *)
(* of [key, value] in the order of the OrderedDict, oldest first.  Each    *)
(* thread takes up one call after another: it stats the file, waits for    *)
(* self.lock, runs the body of the `with` block and releases the lock.     *)
(***************************************************************************)
HashThreads == {1, 2}

HashKeys == 1..MaxHashKeys

\* what a hash function returns: a digest, or the empty string
HashValues == {"h", ""}

\* the calls: put(file, value), get(file), get_or_compute(file, compute_func)
\* where compute_func is None ("none") or returns value, invalidate(file) and
\* clear()
HashCalls ==
    [op : {"put"}, key : HashKeys, value : {"h"}]
    \cup [op : {"get", "invalidate"}, key : HashKeys, value : {"none"}]
    \cup [op : {"get_or_compute"}, key : HashKeys, value : HashValues \cup {"none"}]
    \cup [op : {"clear"}, key : {0}, value : {"none"}]

IdleThread == [pc |-> "idle", op |-> "none", key |-> 0, value |-> "none"]

\* the keys of the OrderedDict, in order
CacheKeys(cache) == [i \in DOMAIN cache |-> cache[i].key]

HasKey(cache, k) == \E i \in DOMAIN cache : cache[i].key = k

\* del self.cache[key]
DelKey(cache, k) == SelectSeq(cache, LAMBDA e : e.key # k)

\* self.cache[key]
ValueOf(cache, k) == cache[CHOOSE i \in DOMAIN cache : cache[i].key = k].value

\* self.cache.move_to_end(key)
move_to_end(cache, k) ==
    Append(DelKey(cache, k), [key |-> k, value |-> ValueOf(cache, k)])

\* self.cache[key] = value: a new key goes to the end, a key already held
\* keeps its place
SetItem(cache, k, v) ==
    IF HasKey(cache, k)
      THEN [i \in DOMAIN cache |->
               IF cache[i].key = k THEN [key |-> k, value |-> v] ELSE cache[i]]
      ELSE Append(cache, [key |-> k, value |-> v])

\* self.cache.popitem(last=False)
popitem_first(cache) == Tail(cache)

\* the order of use that the claims compare the cache with: key k was used
Used(recency, k) == Append(SelectSeq(recency, LAMBDA x : x # k), k)

HashInit ==
    /\ h_cache = <<>>
    /\ h_lock = 0
    /\ h_thread = [t \in HashThreads |-> IdleThread]
    /\ h_ret = [t \in HashThreads |-> "none"]
    /\ h_recency = <<>>
    /\ h_evicted = 0

\* a thread calls a method; file.stat() succeeds and gives the key
HashCall(t, call) ==
    /\ h_thread[t].pc = "idle"
    /\ h_thread' = [h_thread EXCEPT ![t] =
                       [pc |-> "want", op |-> call.op, key |-> call.key,
                        value |-> call.value]]
    /\ h_ret' = [h_ret EXCEPT ![t] = "none"]
    /\ UNCHANGED <<h_cache, h_lock, h_recency, h_evicted>>

\* a thread calls a method on a file whose stat() raises OSError: the call
\* returns without the lock; get_or_compute returns compute_func(file)
HashStatFails(t, call) ==
    /\ h_thread[t].pc = "idle"
    /\ call.op # "clear"
    /\ h_ret' = [h_ret EXCEPT ![t] =
                    IF call.op = "get_or_compute" /\ call.value # "none"
                      THEN call.value ELSE "failed"]
    /\ h_ret'[t] # h_ret[t]
    /\ UNCHANGED <<h_cache, h_lock, h_thread, h_recency, h_evicted>>

\* `with self.lock:` as it would be if the lock excluded nobody
HashAcquireFree(t) ==
    /\ h_thread[t].pc = "want"
    /\ h_lock' = t
    /\ h_thread' = [h_thread EXCEPT ![t].pc = "locked"]
    /\ UNCHANGED <<h_cache, h_ret, h_recency, h_evicted>>

\* `with self.lock:`
HashAcquire(t) ==
    /\ h_thread[t].pc = "want"
    /\ h_lock = 0
    /\ h_lock' = t
    /\ h_thread' = [h_thread EXCEPT ![t].pc = "locked"]
    /\ UNCHANGED <<h_cache, h_ret, h_recency, h_evicted>>

\* get, and get_or_compute, find the key: move_to_end and return the value
HashHit(t) ==
    /\ h_thread[t].pc = "locked"
    /\ h_thread[t].op \in {"get", "get_or_compute"}
    /\ HasKey(h_cache, h_thread[t].key)
    /\ h_cache' = move_to_end(h_cache, h_thread[t].key)
    /\ h_recency' = Used(h_recency, h_thread[t].key)
    /\ h_ret' = [h_ret EXCEPT ![t] = ValueOf(h_cache, h_thread[t].key)]
    /\ h_thread' = [h_thread EXCEPT ![t].pc = "release"]
    /\ UNCHANGED <<h_lock, h_evicted>>

\* get misses; get_or_compute misses and has no compute_func or computes an
\* empty value: nothing is stored
HashMiss(t) ==
    /\ h_thread[t].pc = "locked"
    /\ h_thread[t].op \in {"get", "get_or_compute"}
    /\ ~HasKey(h_cache, h_thread[t].key)
    /\ h_thread[t].op = "get_or_compute" => h_thread[t].value \in {"none", ""}
    /\ h_ret' = [h_ret EXCEPT ![t] =
                    IF h_thread[t].value = "" THEN "" ELSE "none"]
    /\ h_thread' = [h_thread EXCEPT ![t].pc = "release"]
    /\ UNCHANGED <<h_cache, h_lock, h_recency, h_evicted>>

\* put, and get_or_compute after a miss with a computed value: store the
\* value and move the key to the end
HashStore(t) ==
    /\ h_thread[t].pc = "locked"
    /\ \/ h_thread[t].op = "put"
       \/ /\ h_thread[t].op = "get_or_compute"
          /\ ~HasKey(h_cache, h_thread[t].key)
          /\ h_thread[t].value \notin {"none", ""}
    /\ h_cache' = move_to_end(SetItem(h_cache, h_thread[t].key, h_thread[t].value),
                              h_thread[t].key)
    /\ h_recency' = Used(h_recency, h_thread[t].key)
    /\ h_ret' = [h_ret EXCEPT ![t] =
                    IF h_thread[t].op = "put" THEN "none" ELSE h_thread[t].value]
    /\ h_thread' = [h_thread EXCEPT ![t].pc = "stored"]
    /\ UNCHANGED <<h_lock, h_evicted>>

\* if len(self.cache) > self.max_size: self.cache.popitem(last=False)
HashEvict(t) ==
    /\ h_thread[t].pc = "stored"
    /\ IF Len(h_cache) > hash_max_size
         THEN /\ h_cache' = popitem_first(h_cache)
              /\ h_recency' = SelectSeq(h_recency, LAMBDA x : x # h_cache[1].key)
              /\ h_evicted' = h_cache[1].key
         ELSE /\ h_evicted' = 0
              /\ UNCHANGED <<h_cache, h_recency>>
    /\ h_thread' = [h_thread EXCEPT ![t].pc = "release"]
    /\ UNCHANGED <<h_lock, h_ret>>

\* invalidate under the lock
HashInvalidate(t) ==
    /\ h_thread[t].pc = "locked"
    /\ h_thread[t].op = "invalidate"
    /\ h_cache' = DelKey(h_cache, h_thread[t].key)
    /\ h_recency' = SelectSeq(h_recency, LAMBDA x : x # h_thread[t].key)
    /\ h_thread' = [h_thread EXCEPT ![t].pc = "release"]
    /\ UNCHANGED <<h_lock, h_ret, h_evicted>>

\* clear under the lock
HashClear(t) ==
    /\ h_thread[t].pc = "locked"
    /\ h_thread[t].op = "clear"
    /\ h_cache' = <<>>
    /\ h_recency' = <<>>
    /\ h_thread' = [h_thread EXCEPT ![t].pc = "release"]
    /\ UNCHANGED <<h_lock, h_ret, h_evicted>>

\* the end of the `with` block; the call returns
HashRelease(t) ==
    /\ h_thread[t].pc = "release"
    /\ h_lock' = 0
    /\ h_thread' = [h_thread EXCEPT ![t] = IdleThread]
    /\ UNCHANGED <<h_cache, h_ret, h_recency, h_evicted>>

HashNext ==
    \E t \in HashThreads :
        \/ \E call \in HashCalls : HashCall(t, call)
        \/ \E call \in HashCalls : HashStatFails(t, call)
        \/ HashAcquire(t)
        \/ HashHit(t)
        \/ HashMiss(t)
        \/ HashStore(t)
        \/ HashEvict(t)
        \/ HashInvalidate(t)
        \/ HashClear(t)
        \/ HashRelease(t)

\* ---- claims about the HashCache

\* a step that takes a key out of a cache that is over its capacity
EvictionOf(k) ==
    /\ Len(h_cache) > hash_max_size
    /\ HasKey(h_cache, k)
    /\ ~HasKey(h_cache', k)

\* C18: whatever the threads do, the cache holds at most max_size entries
\* whenever no call is inside the lock (and never more than one above), and
\* the entry that an insertion over the capacity pushes out is the least
\* recently used one, where a hit of get or get_or_compute counts as a use.
C18_BoundedLru ==
    /\ [](/\ Len(h_cache) <= hash_max_size + 1
          /\ (\A t \in HashThreads : h_thread[t].pc # "stored")
                 => Len(h_cache) <= hash_max_size)
    /\ [][\A k \in HashKeys : EvictionOf(k) => k = Head(h_recency)]_vars

\* the cache held keys 1 and 2; the insertion of key 3 has just pushed out
\* key 2 and left key 1, while another thread waits for the lock
C18_Witness ==
    /\ Len(h_cache) = hash_max_size
    /\ h_lock # 0
    /\ h_thread[h_lock].pc = "release"
    /\ h_thread[h_lock].op \in {"put", "get_or_compute"}
    /\ CacheKeys(h_cache) = <<1, 3>>
    /\ h_thread[h_lock].key = 3
    /\ h_evicted = 2
    /\ \E t \in HashThreads : t # h_lock /\ h_thread[t].pc = "want"

(***************************************************************************)
(* Part 10  ParallelHasher.hash_files_parallel                             *)
(*          src/diskcleaner/optimization/hash.py                           *)
(*                                                                         *)
(* Each file of the list stands for what its hash unit does in the worker  *)
(* process: "ok" returns a digest, "raises" ends with an exception, "slow" *)
(* returns a digest after more than the 60 seconds of result(timeout=60.0) *)
(* and "hangs" never returns (a read that blocks for ever).                *)
(***************************************************************************)
UnitKinds == {"ok", "raises", "slow", "hangs"}

ParInputs == UNION { [1..n -> UnitKinds] : n \in 0..MaxParFiles }

ParUnits == 1..Len(ph_files)

\* the futures that as_completed can hand over: done and not yet handed over
ParCompleted == {i \in ParUnits : ph_state[i] \in {"finished", "failed"}}

ParInit ==
    /\ ph_files \in ParInputs
    /\ ph_pc = "called"
    /\ ph_state = [i \in ParUnits |-> "unsubmitted"]
    /\ ph_overdue = {}
    /\ ph_result = [i \in ParUnits |-> "unset"]

parInput == <<ph_files>>

\* `if not files: return {}`
ParEmpty ==
    /\ ph_pc = "called"
    /\ ph_files = <<>>
    /\ ph_pc' = "returned"
    /\ UNCHANGED <<parInput, ph_state, ph_overdue, ph_result>>

\* the executor is created and every file is submitted
ParSubmit ==
    /\ ph_pc = "called"
    /\ ph_files # <<>>
    /\ ph_state' = [i \in ParUnits |-> "queued"]
    /\ ph_pc' = "collecting"
    /\ UNCHANGED <<parInput, ph_overdue, ph_result>>

\* a free worker process takes up a queued unit
ParRun(i) ==
    /\ ph_state[i] = "queued"
    /\ Cardinality({j \in ParUnits : ph_state[j] = "running"}) < par_max_workers
    /\ ph_state' = [ph_state EXCEPT ![i] = "running"]
    /\ UNCHANGED <<parInput, ph_pc, ph_overdue, ph_result>>

\* sixty seconds pass while a unit runs
ParOverdue(i) ==
    /\ ph_state[i] = "running"
    /\ ph_files[i] \in {"slow", "hangs"}
    /\ i \notin ph_overdue
    /\ ph_overdue' = ph_overdue \cup {i}
    /\ UNCHANGED <<parInput, ph_pc, ph_state, ph_result>>

\* _hash_single_file returns or raises in the worker process
ParFinish(i) ==
    /\ ph_state[i] = "running"
    /\ \/ ph_files[i] \in {"ok", "raises"}
       \/ ph_files[i] = "slow" /\ i \in ph_overdue
    /\ ph_state' = [ph_state EXCEPT ![i] =
                       IF ph_files[i] = "raises" THEN "failed" ELSE "finished"]
    /\ UNCHANGED <<parInput, ph_pc, ph_overdue, ph_result>>

\* one round of `for future in as_completed(futures)`: a completed future is
\* handed over; future.result(timeout=60.0) returns its value or raises its
\* exception at once
ParCollect(i) ==
    /\ ph_pc = "collecting"
    /\ i \in ParCompleted
    /\ ph_result' = [ph_result EXCEPT ![i] =
                        IF ph_state[i] = "failed" THEN "" ELSE "digest"]
    /\ ph_state' = [ph_state EXCEPT ![i] = "collected"]
    /\ UNCHANGED <<parInput, ph_pc, ph_overdue>>

\* as_completed is exhausted; executor.shutdown(wait=True); return result
ParReturn ==
    /\ ph_pc = "collecting"
    /\ \A i \in ParUnits : ph_state[i] = "collected"
    /\ ph_pc' = "returned"
    /\ UNCHANGED <<parInput, ph_state, ph_overdue, ph_result>>

ParNext ==
    \/ ParEmpty
    \/ ParSubmit
    \/ \E i \in ParUnits : ParRun(i)
    \/ \E i \in ParUnits : ParOverdue(i)
    \/ \E i \in ParUnits : ParFinish(i)
    \/ \E i \in ParUnits : ParCollect(i)
    \/ ParReturn

\* ---- claims about hash_files_parallel

\* C21: hash_files_parallel returns in the end; its result has one entry for
\* every file, and a unit that failed or took longer than the timeout has
\* the empty hash.
C21_AlwaysReturns ==
    /\ <>(ph_pc = "returned")
    /\ [](ph_pc = "returned" =>
             \A i \in ParUnits :
                 /\ ph_result[i] # "unset"
                 /\ (ph_files[i] = "raises" \/ i \in ph_overdue) => ph_result[i] = "")

(***************************************************************************)
(* Part 11  DeletionManager.delete(files, async_mode=True)                 *)
(*          src/diskcleaner/optimization/delete.py                         *)
(*                                                                         *)
(* _delete_async creates an AsyncDeleter and iterates delete_async(files)  *)
(* to its end; the steps of delete_async are those of Part 6, and the      *)
(* updates it yields are collected here.                                   *)
(***************************************************************************)
\* the fields of the dataclass ProgressUpdate, and those without a default
ProgressUpdateFields ==
    {"current", "total", "percent", "batch", "total_batches", "current_file", "speed"}

ProgressUpdateRequired == {"current", "total", "percent", "batch", "total_batches"}

\* ProgressUpdate(**kwargs): TypeError for a keyword that is no field and for
\* a missing field without default
ProgressUpdate(kwargs) ==
    IF DOMAIN kwargs \subseteq ProgressUpdateFields
       /\ ProgressUpdateRequired \subseteq DOMAIN kwargs
      THEN [raised |-> FALSE, update |-> kwargs]
      ELSE [raised |-> TRUE, update |-> <<>>]

\* the ProgressUpdate that delete_async builds for batch b once the totals
\* stand at `totals`
async_update(files, b, totals) ==
    ProgressUpdate([batch_id |-> b,
                    current |-> totals.deleted + totals.failed,
                    total |-> Len(files),
                    percent |-> ((totals.deleted + totals.failed) * 100) \div Len(files),
                    batch |-> b + 1,
                    total_batches |-> batch_count(files),
                    speed |-> 0])

MgrInit ==
    /\ AsyncInit
    /\ m_updates = <<>>
    /\ m_result = NoDeleteResult

\* a step of delete_async other than the collecting of a result
MgrStep ==
    /\ \/ AsyncEmpty
       \/ AsyncStart
       \/ AsyncSubmit
       \/ AsyncSubmitted
       \/ AsyncEnd
       \/ AsyncCancel
       \/ \E w \in AsyncWorkers :
             AsyncTake(w) \/ AsyncPoll(w) \/ AsyncDelete(w) \/ AsyncReturn(w)
    /\ UNCHANGED <<m_updates, m_result>>

\* delete.py 280-309: a result is collected; unless stop_event is set the
\* update is built and, if that raises nothing, yielded
MgrCollect ==
    /\ AsyncCollect
    /\ LET u == async_update(a_files, Head(a_completed), a_totals')
       IN  m_updates' = IF a_stop \/ u.raised THEN m_updates
                        ELSE Append(m_updates, u.update)
    /\ UNCHANGED m_result

\* delete.py 570-577: the generator is exhausted; the DeleteResult is built
\* from the local lists success and failed, which nothing has filled
MgrReturn ==
    /\ a_pc = "done"
    /\ ~m_result.returned
    /\ m_result' = DeleteResult(<<>>, <<>>, 0, FALSE)
    /\ UNCHANGED <<asyncVars, m_updates>>

MgrNext == MgrStep \/ MgrCollect \/ MgrReturn

\* ---- claims about the asynchronous mode

\* the positions of the list held by a list of positions
Positions(l) == {l[i] : i \in DOMAIN l}

\* C22: the DeleteResult of the asynchronous mode names exactly the files
\* that were removed as its successes, the files whose removal failed as its
\* failures, and counts them.
C22_ResultDescribesFiles ==
    m_result.returned =>
        /\ Positions(m_result.success) = a_gone
        /\ m_result.total_deleted = Cardinality(a_gone)
        /\ Positions(m_result.failed) \subseteq {f \in DOMAIN a_files : a_files[f] = "fail"}
        /\ m_result.total_failed = Len(m_result.failed)
        /\ ~a_cancel_issued =>
               Positions(m_result.failed) = {f \in DOMAIN a_files : a_files[f] = "fail"}

\* the batches whose result delete_async has taken from as_completed
AsyncCollected == {b \in AsyncBatches : a_state[b] = "collected"}

\* C23: delete_async yields one update for each batch that has completed
\* (for each one collected, as long as no cancel was issued), with a
\* cumulative count that never decreases and never exceeds the total; when
\* the delete was not cancelled the last update has current = total.
C23_UpdatePerBatch ==
    /\ Len(m_updates) <= Cardinality(AsyncCollected)
    /\ ~a_cancel_issued => Len(m_updates) = Cardinality(AsyncCollected)
    /\ \A k \in DOMAIN m_updates :
           /\ m_updates[k].current <= m_updates[k].total
           /\ k > 1 => m_updates[k - 1].current <= m_updates[k].current
    /\ (a_pc = "done" /\ ~a_cancel_issued /\ a_files # <<>>) =>
           /\ m_updates # <<>>
           /\ m_updates[Len(m_updates)].current = Len(a_files)

(***************************************************************************)
(* Part 12  DeletionManager.delete(files) in synchronous mode, by strategy *)
(*          src/diskcleaner/optimization/delete.py                         *)
(*                                                                         *)
(* The manager holds a BatchDeleter and a SmartDeleter built with the      *)
(* defaults.  Sizes are counted in units of the default threshold, so that *)
(* d_f is the one file above it.  The file system, the trash and the       *)
(* environment are those of Parts 4 and 5.                                 *)
(***************************************************************************)
DeleteStrategies == {"direct", "recycle", "smart"}

\* SmartDeleter(): use_recycle_bin=False, large_file_threshold=50 MiB
manager_smart_deleter == [use_recycle_bin |-> FALSE, large_file_threshold |-> 1]

\* DeletionManager._apply_smart_filtering
apply_smart_filtering(files) == files

StrategyInit ==
    /\ DeleteInit
    /\ Len(del_files) <= MaxRedelFiles
    /\ present0 = present
    /\ del_calls = 0
    /\ smart_cfg = manager_smart_deleter
    /\ smart_env \in SmartEnvs
    /\ trash = {}
    /\ smart_log = <<>>
    /\ dm_strategy \in DeleteStrategies
    /\ dm_pc = "called"

\* delete.py 529-537: no file, an empty DeleteResult at once
StrategyEmpty ==
    /\ dm_pc = "called"
    /\ del_files = <<>>
    /\ dm_pc' = "returned"
    /\ del_pc' = "done"
    /\ del_result' = DeleteResult(<<>>, <<>>, 0, FALSE)
    /\ UNCHANGED <<delInputVars, present, del_i, success, failed, cancelled,
                   total_size, attempted, redelVars, dm_strategy>>

\* delete.py 544-550: _delete_batch filters the list under the smart strategy
\* and hands it to batch_deleter.delete_with_progress
StrategyDelegate ==
    /\ dm_pc = "called"
    /\ del_files # <<>>
    /\ del_files' = IF dm_strategy = "smart" THEN apply_smart_filtering(del_files)
                    ELSE del_files
    /\ dm_pc' = "batch"
    /\ UNCHANGED <<progress_callback, present, del_pc, del_i, success, failed,
                   cancelled, total_size, attempted, del_result, redelVars,
                   dm_strategy>>

\* a step of delete_with_progress, whose result _delete_batch returns
StrategyBatch ==
    /\ dm_pc = "batch"
    /\ DeleteNext
    /\ dm_pc' = IF del_result'.returned THEN "returned" ELSE "batch"
    /\ UNCHANGED <<redelVars, dm_strategy>>

StrategyNext == StrategyEmpty \/ StrategyDelegate \/ StrategyBatch

\* ---- claims about the smart strategy

\* the files of the call that were there and that the smart rule sends to
\* the trash: larger than the threshold, or under a system or user-data
\* location
Reversible ==
    {p \in DelPaths : /\ InList(del_files, p)
                      /\ p \in present0
                      /\ should_use_recycle_bin(smart_cfg, present0, p)}

\* C24: once delete has returned under the smart strategy, a file that is
\* larger than the threshold or lies under a system or user-data location is
\* in the trash whenever the trash mechanism works; it is gone without being
\* in the trash only when the mechanism is absent or fails.
C24_SmartRoutesToTrash ==
    (dm_pc = "returned" /\ dm_strategy = "smart" /\ ~cancelled) =>
        \A p \in Reversible :
            /\ smart_env.send2trash = "ok" => p \in trash
            /\ (p \notin present /\ p \notin trash) => smart_env.send2trash # "ok"

(***************************************************************************)
(* Part 13  InteractiveCleanupUI.confirm_and_cleanup                       *)
(*          src/diskcleaner/core/interactive.py                            *)
(*                                                                         *)
(* The paths: a and b are files, gone does not exist, full is a directory  *)
(* that is not empty (rmdir raises OSError).  What the user types is a     *)
(* sequence of characters.                                                 *)
(***************************************************************************)
UiPaths == {"a", "b", "gone", "full"}

UiFs0 == {"a", "b", "full"}

UiLists == UNION { [1..n -> UiPaths] : n \in 0..MaxUiFiles }

YES == <<"Y", "E", "S">>

UiTyped ==
    {YES, <<" ", "Y", "E", "S">>, <<"Y", "E", "S", " ">>, <<"y", "e", "s">>,
     <<"Y">>, <<"N", "O">>, <<>>, <<"Y", "E", "S", "!">>}

Whitespace == {" ", "\t"}

\* str.strip(): the text without the whitespace at its two ends
RECURSIVE lstrip(_)
lstrip(s) == IF s # <<>> /\ Head(s) \in Whitespace THEN lstrip(Tail(s)) ELSE s

RECURSIVE rstrip(_)
rstrip(s) ==
    IF s # <<>> /\ s[Len(s)] \in Whitespace THEN rstrip(SubSeq(s, 1, Len(s) - 1)) ELSE s

strip(s) == rstrip(lstrip(s))

\* a confirmation that lets everything through
confirmed_whatever(typed) == TRUE

\* interactive.py 598-600: the text read by input(), stripped, is YES
confirmed(typed) == strip(typed) = YES

\* interactive.py 576-583: the paths of the list that exist
valid_files(files, fs) == SelectSeq(files, LAMBDA p : p \in fs)

\* _execute_cleanup: with backup the call safety_checker.backup_file raises
\* AttributeError (SafetyChecker has no such method) at the first file; else
\* a file is unlinked, a directory removed if it is empty (OSError counted as
\* a failure), and a path that is neither counts as a success
RECURSIVE cleanup_loop(_, _, _)
cleanup_loop(files, fs, nfailed) ==
    IF files = <<>> THEN [fs |-> fs, failed |-> nfailed]
    ELSE LET p == Head(files)
         IN  IF p \in fs /\ p # "full"
               THEN cleanup_loop(Tail(files), fs \ {p}, nfailed)
             ELSE IF p \in fs
               THEN cleanup_loop(Tail(files), fs, nfailed + 1)
             ELSE cleanup_loop(Tail(files), fs, nfailed)

execute_cleanup(files, fs, backup) ==
    IF backup /\ files # <<>> THEN [ret |-> "raised", fs |-> fs]
    ELSE LET r == cleanup_loop(files, fs, 0)
         IN  [ret |-> IF r.failed = 0 THEN "True" ELSE "False", fs |-> r.fs]

UiInit ==
    /\ ui_call \in [files : UiLists, dry_run : BOOLEAN, backup : BOOLEAN,
                    typed : UiTyped]
    /\ ui_fs = UiFs0
    /\ ui_pc = "called"
    /\ ui_ret = "none"

\* interactive.py 568-570
UiEmpty ==
    /\ ui_pc = "called"
    /\ ui_call.files = <<>>
    /\ ui_pc' = "returned"
    /\ ui_ret' = "False"
    /\ UNCHANGED <<ui_call, ui_fs>>

\* interactive.py 573-587: no path of the list exists
UiNoneValid ==
    /\ ui_pc = "called"
    /\ ui_call.files # <<>>
    /\ valid_files(ui_call.files, ui_fs) = <<>>
    /\ ui_pc' = "returned"
    /\ ui_ret' = "False"
    /\ UNCHANGED <<ui_call, ui_fs>>

\* interactive.py 589-596: the summary is shown; in dry-run mode that is all
UiDryRun ==
    /\ ui_pc = "called"
    /\ valid_files(ui_call.files, ui_fs) # <<>>
    /\ ui_call.dry_run
    /\ ui_pc' = "returned"
    /\ ui_ret' = "False"
    /\ UNCHANGED <<ui_call, ui_fs>>

\* interactive.py 598: the summary is shown and the question asked
UiAsk ==
    /\ ui_pc = "called"
    /\ valid_files(ui_call.files, ui_fs) # <<>>
    /\ ~ui_call.dry_run
    /\ ui_pc' = "input"
    /\ UNCHANGED <<ui_call, ui_fs, ui_ret>>

\* interactive.py 598-602: the answer is not YES
UiCancelled ==
    /\ ui_pc = "input"
    /\ ~confirmed(ui_call.typed)
    /\ ui_pc' = "returned"
    /\ ui_ret' = "False"
    /\ UNCHANGED <<ui_call, ui_fs>>

\* interactive.py 604-615: the answer is YES and the files are deleted
UiCleanup ==
    /\ ui_pc = "input"
    /\ confirmed(ui_call.typed)
    /\ LET r == execute_cleanup(valid_files(ui_call.files, ui_fs), ui_fs,
                                ui_call.backup)
       IN  /\ ui_fs' = r.fs
           /\ ui_ret' = r.ret
    /\ ui_pc' = "returned"
    /\ UNCHANGED ui_call

UiNext ==
    UiEmpty \/ UiNoneValid \/ UiDryRun \/ UiAsk \/ UiCancelled \/ UiCleanup

\* ---- claims about confirm_and_cleanup

\* C25 as stated: in dry-run mode, and when the text typed is anything other
\* than exactly YES, no file is deleted and False is returned.
C25_ExactYesAsStated ==
    (ui_pc = "returned" /\ (ui_call.dry_run \/ ui_call.typed # YES)) =>
        /\ ui_fs = UiFs0
        /\ ui_ret = "False"

\* C25: in dry-run mode, and when the text typed is not YES once the
\* whitespace around it is removed, no file is deleted and False is
\* returned, for every list of files.
C25_NoDeleteUnlessYes ==
    (ui_pc = "returned" /\ (ui_call.dry_run \/ strip(ui_call.typed) # YES)) =>
        /\ ui_fs = UiFs0
        /\ ui_ret = "False"

\* the question was asked about files that exist and the answer was not YES
C25_Witness ==
    /\ ui_pc = "returned"
    /\ ~ui_call.dry_run
    /\ ~ui_call.backup
    /\ ui_call.typed = <<"y", "e", "s">>
    /\ valid_files(ui_call.files, ui_fs) = <<"a", "b">>

(***************************************************************************)
(* Part 14  ConcurrentScanner.scan of a root the strategy excludes         *)
(*          src/diskcleaner/optimization/scan.py                           *)
(*                                                                         *)
(* The scan of Part 1, with the answer of ScanStrategy.should_exclude for  *)
(* the root itself as one more input.  scan() asks should_exclude about    *)
(* the entries it lists only, so its steps are those of Part 1.            *)
(***************************************************************************)
RootScanInit ==
    /\ ScanInit
    /\ root_excluded \in BOOLEAN

RootScanNext ==
    /\ ScanNext
    /\ UNCHANGED root_excluded

\* the root has been listed: os.scandir(path) has returned its entries
RootListed == mpc \in {"seed", "put", "join", "set_stop", "join_workers"}

\* C26: when the root itself is excluded, the scan lists no directory and
\* emits no record.
C26_ExcludedRootFailsFast ==
    root_excluded =>
        /\ ~RootListed
        /\ results = <<>>
        /\ \A w \in Workers : wdir[w] = 0

(***************************************************************************)
(* Part 15  Walking a tree that holds symbolic links                       *)
(*   DirectoryScanner._scan_directory   src/diskcleaner/core/scanner.py    *)
(*   ConcurrentScanner.scan             src/diskcleaner/optimization/scan.py *)
(*                                                                         *)
(* The directories are numbered, 0 is the root and parent[d] < d.  A link  *)
(* is [at, to]: a symbolic link that lies in directory `at` and points to  *)
(* directory `to`, or to nothing when `to` is -1.  Link k of the list has  *)
(* the inode LinkInode(k); a directory has its number as inode.  An entry  *)
(* of a listing is [link, id, to]: directory `id`, or link number `id`.    *)
(***************************************************************************)
WalkDirs == 0..2

WalkParents == {p \in [WalkDirs \ {0} -> WalkDirs] : \A d \in DOMAIN p : p[d] < d}

WalkLinks ==
    UNION { [1..n -> [at : WalkDirs, to : WalkDirs \cup {-1}]] : n \in 0..MaxLinks }

Scanners == {"core", "concurrent"}

LinkInode(k) == 100 + k

RECURSIVE SubdirsFrom(_, _, _)
SubdirsFrom(fs, d, c) ==
    IF c \notin WalkDirs THEN <<>>
    ELSE IF c # 0 /\ fs.parent[c] = d
      THEN <<[link |-> FALSE, id |-> c, to |-> c]>> \o SubdirsFrom(fs, d, c + 1)
    ELSE SubdirsFrom(fs, d, c + 1)

RECURSIVE LinksFrom(_, _, _)
LinksFrom(fs, d, k) ==
    IF k > Len(fs.links) THEN <<>>
    ELSE IF fs.links[k].at = d
      THEN <<[link |-> TRUE, id |-> k, to |-> fs.links[k].to]>> \o LinksFrom(fs, d, k + 1)
    ELSE LinksFrom(fs, d, k + 1)

\* directory.iterdir() and os.scandir(dir_path): the entries of directory d
iterdir(fs, d) == LinksFrom(fs, d, 1) \o SubdirsFrom(fs, d, 1)

\* entry.is_dir(): the link is followed
entry_is_dir(e) == e.to # -1

\* a walk that goes into every entry that is a directory, linked or not
recurse_into_links(is_a_dir, is_link) == is_a_dir

\* scanner.py 262: if is_dir and not is_link
recurse_into(is_a_dir, is_link) == is_a_dir /\ ~is_link

\* entry.is_dir(follow_symlinks=False) of the concurrent scanner
is_dir_nofollow(e) == ~e.link

WalkInit ==
    /\ w_in \in [parent : WalkParents, links : WalkLinks,
                 follow_symlinks : BOOLEAN, scanner : Scanners]
    /\ w_pc = "start"
    /\ w_stack = <<>>
    /\ w_queue = <<>>
    /\ w_visited = {}
    /\ w_listed = <<>>

\* scanner.py 193, 211-222: scan_generator starts _scan_directory at the root
CoreStart ==
    /\ w_pc = "start"
    /\ w_in.scanner = "core"
    /\ w_pc' = "walk"
    /\ w_stack' = <<[dir |-> 0, entries |-> iterdir(w_in, 0)]>>
    /\ w_listed' = <<0>>
    /\ UNCHANGED <<w_in, w_queue, w_visited>>

\* scanner.py 224-267: one turn of the loop over the entries of the innermost
\* call, or its return when no entry is left
CoreEntry ==
    /\ w_pc = "walk"
    /\ w_in.scanner = "core"
    /\ w_stack # <<>>
    /\ LET top == w_stack[Len(w_stack)]
           below == SubSeq(w_stack, 1, Len(w_stack) - 1)
       IN  IF top.entries = <<>>
             THEN /\ w_stack' = below
                  /\ UNCHANGED <<w_visited, w_listed>>
           ELSE LET e == Head(top.entries)
                    rest == Append(below, [top EXCEPT !.entries = Tail(@)])
                    skipped == e.link /\ (~w_in.follow_symlinks
                                            \/ LinkInode(e.id) \in w_visited)
                IN  /\ w_visited' = IF e.link /\ ~skipped
                                      THEN w_visited \cup {LinkInode(e.id)}
                                      ELSE w_visited
                    /\ IF ~skipped /\ recurse_into(entry_is_dir(e), e.link)
                         THEN /\ w_stack' = Append(rest,
                                     [dir |-> e.to, entries |-> iterdir(w_in, e.to)])
                              /\ w_listed' = Append(w_listed, e.to)
                         ELSE /\ w_stack' = rest
                              /\ UNCHANGED w_listed
    /\ UNCHANGED <<w_in, w_pc, w_queue>>

\* the outermost call has returned
CoreDone ==
    /\ w_pc = "walk"
    /\ w_in.scanner = "core"
    /\ w_stack = <<>>
    /\ w_pc' = "done"
    /\ UNCHANGED <<w_in, w_stack, w_queue, w_visited, w_listed>>

\* the directories that a listing of d puts on the work queue
queued_from(fs, d) ==
    SelectSeq(iterdir(fs, d), LAMBDA e : is_dir_nofollow(e))

RECURSIVE DirsOf(_)
DirsOf(es) == IF es = <<>> THEN <<>> ELSE <<Head(es).to>> \o DirsOf(Tail(es))

\* scan.py 342-366: the main thread lists the root and queues its directories
ConcSeed ==
    /\ w_pc = "start"
    /\ w_in.scanner = "concurrent"
    /\ w_pc' = "walk"
    /\ w_listed' = <<0>>
    /\ w_queue' = DirsOf(queued_from(w_in, 0))
    /\ UNCHANGED <<w_in, w_stack, w_visited>>

\* scan.py 262-313: a worker takes a directory from the queue, lists it and
\* queues its directories
ConcWorker ==
    /\ w_pc = "walk"
    /\ w_in.scanner = "concurrent"
    /\ w_queue # <<>>
    /\ w_listed' = Append(w_listed, Head(w_queue))
    /\ w_queue' = Tail(w_queue) \o DirsOf(queued_from(w_in, Head(w_queue)))
    /\ UNCHANGED <<w_in, w_pc, w_stack, w_visited>>

\* scan.py 373-374: the queue is worked off
ConcDone ==
    /\ w_pc = "walk"
    /\ w_in.scanner = "concurrent"
    /\ w_queue = <<>>
    /\ w_pc' = "done"
    /\ UNCHANGED <<w_in, w_stack, w_queue, w_visited, w_listed>>

WalkNext ==
    CoreStart \/ CoreEntry \/ CoreDone \/ ConcSeed \/ ConcWorker \/ ConcDone

\* ---- claims about the walk

\* a link that lies in directory d and points to d or to an ancestor of d
RECURSIVE IsAncestorOrSelf(_, _, _)
IsAncestorOrSelf(fs, a, d) ==
    IF a = d THEN TRUE
    ELSE IF d = 0 THEN FALSE
    ELSE IsAncestorOrSelf(fs, a, fs.parent[d])

CycleLinks ==
    {k \in DOMAIN w_in.links :
        /\ w_in.links[k].to # -1
        /\ IsAncestorOrSelf(w_in, w_in.links[k].to, w_in.links[k].at)}

\* C28: within one walk no directory is listed twice, whatever links the
\* tree holds and whether or not links are followed; so at most as many
\* listings are made as there are directories.
C28_ListedOnce ==
    /\ \A i, j \in DOMAIN w_listed : i # j => w_listed[i] # w_listed[j]
    /\ Len(w_listed) <= Cardinality(WalkDirs)

\* a core walk that follows links has finished in a tree with a link to an
\* ancestor, and has met that link
C28_Witness ==
    /\ w_pc = "done"
    /\ w_in.scanner = "core"
    /\ w_in.follow_symlinks
    /\ \E k \in CycleLinks : /\ LinkInode(k) \in w_visited
                             /\ w_in.links[k].at # 0
    /\ Len(w_listed) = Cardinality(WalkDirs)

(***************************************************************************)
(* Part 16  ConcurrencyManager                                             *)
(*          src/diskcleaner/optimization/concurrency.py                    *)
(*                                                                         *)
(* A pool object is [id, kind, max_workers]: the id tells the objects      *)
(* apart, max_workers 0 stands for the number that _optimal_threads or     *)
(* _optimal_processes computes.  A registry is a function from the         *)
(* purposes it holds to their pools.                                       *)
(***************************************************************************)
Purposes == {"io_scan", "hash_compute"}

\* the max_workers of a call: None (0), two sizes, and a size that the
\* executor refuses with ValueError
WorkerArgs == {0, 1, 2, -1}

NoPools == [p \in {} |-> 0]

NoManagerCall ==
    [op |-> "none", purpose |-> "", raised |-> FALSE, ret |-> 0,
     threads |-> NoPools, processes |-> NoPools, dead |-> {}]

PoolIds(pools) == {pools[p].id : p \in DOMAIN pools}

\* self.thread_pools[purpose] = pool
register(pools, purpose, pool) ==
    [p \in DOMAIN pools \cup {purpose} |-> IF p = purpose THEN pool ELSE pools[p]]

\* a shutdown of one purpose that empties the registry
unregister_all(pools, purpose) == NoPools

\* del self.thread_pools[purpose]
unregister(pools, purpose) == [p \in DOMAIN pools \ {purpose} |-> pools[p]]

\* get_pool_count()
get_pool_count == Cardinality(DOMAIN thread_pools) + Cardinality(DOMAIN process_pools)

ManagerInit ==
    /\ thread_pools = NoPools
    /\ process_pools = NoPools
    /\ cm_initialized = FALSE
    /\ cm_created = 0
    /\ cm_dead = {}
    /\ cm_live = {}
    /\ cm_call = NoManagerCall

\* what the call found, kept with the call
ManagerCall(op, purpose, raised, ret) ==
    [op |-> op, purpose |-> purpose, raised |-> raised, ret |-> ret,
     threads |-> thread_pools, processes |-> process_pools, dead |-> cm_dead]

\* concurrency.py 29-49
GetThreadPool(purpose, workers) ==
    /\ (purpose \notin DOMAIN thread_pools /\ workers >= 0) => cm_created < MaxPools
    /\ IF purpose \in DOMAIN thread_pools
         THEN /\ cm_call' = ManagerCall("get_thread_pool", purpose, FALSE,
                                   thread_pools[purpose].id)
              /\ UNCHANGED <<thread_pools, cm_initialized, cm_created, cm_live>>
       ELSE IF workers < 0
         THEN /\ cm_call' = ManagerCall("get_thread_pool", purpose, TRUE, 0)
              /\ UNCHANGED <<thread_pools, cm_initialized, cm_created, cm_live>>
       ELSE /\ cm_created' = cm_created + 1
            /\ thread_pools' = register(thread_pools, purpose,
                   [id |-> cm_created + 1, kind |-> "thread",
                    max_workers |-> workers])
            /\ cm_initialized' = TRUE
            /\ cm_live' = cm_live \cup {<<"thread", purpose>>}
            /\ cm_call' = ManagerCall("get_thread_pool", purpose, FALSE, cm_created + 1)
    /\ UNCHANGED <<process_pools, cm_dead>>

\* concurrency.py 51-71
GetProcessPool(purpose, workers) ==
    /\ (purpose \notin DOMAIN process_pools /\ workers >= 0) => cm_created < MaxPools
    /\ IF purpose \in DOMAIN process_pools
         THEN /\ cm_call' = ManagerCall("get_process_pool", purpose, FALSE,
                                   process_pools[purpose].id)
              /\ UNCHANGED <<process_pools, cm_initialized, cm_created, cm_live>>
       ELSE IF workers < 0
         THEN /\ cm_call' = ManagerCall("get_process_pool", purpose, TRUE, 0)
              /\ UNCHANGED <<process_pools, cm_initialized, cm_created, cm_live>>
       ELSE /\ cm_created' = cm_created + 1
            /\ process_pools' = register(process_pools, purpose,
                   [id |-> cm_created + 1, kind |-> "process",
                    max_workers |-> workers])
            /\ cm_initialized' = TRUE
            /\ cm_live' = cm_live \cup {<<"process", purpose>>}
            /\ cm_call' = ManagerCall("get_process_pool", purpose, FALSE, cm_created + 1)
    /\ UNCHANGED <<thread_pools, cm_dead>>

\* concurrency.py 107-121
ShutdownPool(purpose) ==
    /\ thread_pools' = IF purpose \in DOMAIN thread_pools
                         THEN unregister(thread_pools, purpose) ELSE thread_pools
    /\ process_pools' = IF purpose \in DOMAIN process_pools
                          THEN unregister(process_pools, purpose) ELSE process_pools
    /\ cm_dead' = cm_dead
           \cup (IF purpose \in DOMAIN thread_pools
                   THEN {thread_pools[purpose].id} ELSE {})
           \cup (IF purpose \in DOMAIN process_pools
                   THEN {process_pools[purpose].id} ELSE {})
    /\ cm_live' = cm_live \ {<<"thread", purpose>>, <<"process", purpose>>}
    /\ cm_call' = ManagerCall("shutdown_pool", purpose, FALSE, 0)
    /\ UNCHANGED <<cm_initialized, cm_created>>

\* concurrency.py 123-138
ShutdownAll ==
    /\ cm_dead' = cm_dead \cup PoolIds(thread_pools) \cup PoolIds(process_pools)
    /\ thread_pools' = NoPools
    /\ process_pools' = NoPools
    /\ cm_initialized' = FALSE
    /\ cm_live' = {}
    /\ cm_call' = ManagerCall("shutdown_all", "", FALSE, 0)
    /\ UNCHANGED cm_created

ManagerNext ==
    \/ \E purpose \in Purposes, w \in WorkerArgs : GetThreadPool(purpose, w)
    \/ \E purpose \in Purposes, w \in WorkerArgs : GetProcessPool(purpose, w)
    \/ \E purpose \in Purposes : ShutdownPool(purpose)
    \/ ShutdownAll

\* ---- claims about the registry

\* the purposes obtained and not shut down since
LivePurposes == {k[2] : k \in cm_live}

AllPoolIds == PoolIds(thread_pools) \cup PoolIds(process_pools)

IsGet == cm_call.op \in {"get_thread_pool", "get_process_pool"} /\ ~cm_call.raised

\* the pool that the purpose of the call had before the call, of whichever
\* kind
HadPool ==
    cm_call.purpose \in DOMAIN cm_call.threads \cup DOMAIN cm_call.processes

\* C29 as stated: the registry holds exactly one pool per purpose obtained
\* and not shut down since, and a get for a registered purpose returns the
\* pool that is registered for it.
C29_OnePoolPerPurposeAsStated ==
    /\ get_pool_count = Cardinality(LivePurposes)
    /\ (IsGet /\ HadPool) =>
           cm_call.ret \in PoolIds(cm_call.threads) \cup PoolIds(cm_call.processes)

\* the registry of the kind that the call asks for, before and after it
RegistryBefore ==
    IF cm_call.op = "get_thread_pool" THEN cm_call.threads ELSE cm_call.processes

RegistryAfter ==
    IF cm_call.op = "get_thread_pool" THEN thread_pools ELSE process_pools

\* C29: each of the two registries holds exactly one pool per purpose
\* obtained from it and not shut down since, all of them distinct objects
\* that were not shut down; a get for a purpose registered in that registry
\* returns the same pool, max_workers unchanged, and else a pool never seen
\* before; shutdown_pool(p) removes the thread pool and the process pool of
\* p and leaves all the others; shutdown_all leaves no pool and
\* is_initialized() false.
C29_RegistryExact ==
    /\ DOMAIN thread_pools = {p \in Purposes : <<"thread", p>> \in cm_live}
    /\ DOMAIN process_pools = {p \in Purposes : <<"process", p>> \in cm_live}
    /\ Cardinality(AllPoolIds) = get_pool_count
    /\ AllPoolIds \cap cm_dead = {}
    /\ IsGet =>
           IF cm_call.purpose \in DOMAIN RegistryBefore
             THEN /\ RegistryAfter = RegistryBefore
                  /\ cm_call.ret = RegistryBefore[cm_call.purpose].id
             ELSE /\ RegistryAfter[cm_call.purpose].id = cm_call.ret
                  /\ cm_call.ret \notin PoolIds(cm_call.threads)
                         \cup PoolIds(cm_call.processes) \cup cm_call.dead
                  /\ \A p \in DOMAIN RegistryBefore : RegistryAfter[p] = RegistryBefore[p]
    /\ cm_call.op = "shutdown_pool" =>
           /\ thread_pools = [p \in DOMAIN cm_call.threads \ {cm_call.purpose}
                                 |-> cm_call.threads[p]]
           /\ process_pools = [p \in DOMAIN cm_call.processes \ {cm_call.purpose}
                                  |-> cm_call.processes[p]]
    /\ cm_call.op = "shutdown_all" => (get_pool_count = 0 /\ ~cm_initialized)

\* shutdown_pool of a purpose that had a thread pool and a process pool,
\* while another purpose keeps its pool
C29_Witness ==
    /\ cm_call.op = "shutdown_pool"
    /\ cm_call.purpose \in DOMAIN cm_call.threads
    /\ cm_call.purpose \in DOMAIN cm_call.processes
    /\ get_pool_count = 1
    /\ cm_dead # {}

(***************************************************************************)
(* Part 17  MemoryMonitor.get_optimal_workers                              *)
(*          src/diskcleaner/optimization/memory.py                         *)
(*                                                                         *)
(* Memory is counted in tenths of the unit of threshold_mb, so that the    *)
(* warning threshold (0.7 of the threshold) and the critical threshold     *)
(* (0.9 of it) are whole numbers.                                          *)
(***************************************************************************)
MemoryStatuses == {"OK", "WARNING", "CRITICAL"}

\* memory.py 48-50
warning_threshold(threshold_mb) == threshold_mb * 7

critical_threshold(threshold_mb) == threshold_mb * 9

\* MemoryMonitor.check_memory, for the usage that get_memory_usage reports
check_memory(current, threshold_mb) ==
    IF current > critical_threshold(threshold_mb) THEN "CRITICAL"
    ELSE IF current > warning_threshold(threshold_mb) THEN "WARNING"
    ELSE "OK"

\* max(a, b) of Python
PyMax(a, b) == IF b > a THEN b ELSE a

\* the reduction without the floor of one worker
get_optimal_workers_unfloored(status, current_workers) ==
    IF status = "CRITICAL" THEN current_workers \div 4
    ELSE IF status = "WARNING" THEN current_workers \div 2
    ELSE current_workers

\* MemoryMonitor.get_optimal_workers, for the status check_memory returned
get_optimal_workers(status, current_workers) ==
    IF status = "CRITICAL" THEN PyMax(1, current_workers \div 4)
    ELSE IF status = "WARNING" THEN PyMax(1, current_workers \div 2)
    ELSE current_workers

NoWorkersCall == [called |-> FALSE, current_workers |-> 0, status |-> "OK", ret |-> 0]

MonitorInit ==
    /\ mm_threshold_mb \in 1..MaxThresholdMb
    /\ mm_usage \in 0..MaxUsage
    /\ mm_call = NoWorkersCall

\* the memory in use changes between two calls
MemoryChanges ==
    /\ \E u \in 0..MaxUsage : u # mm_usage /\ mm_usage' = u
    /\ UNCHANGED <<mm_threshold_mb, mm_call>>

\* memory.py 161-181
GetOptimalWorkers(current_workers) ==
    /\ LET status == check_memory(mm_usage, mm_threshold_mb)
       IN  mm_call' = [called |-> TRUE, current_workers |-> current_workers,
                       status |-> status,
                       ret |-> get_optimal_workers(status, current_workers)]
    /\ UNCHANGED <<mm_threshold_mb, mm_usage>>

MonitorNext ==
    \/ MemoryChanges
    \/ \E n \in 0..MaxCurrentWorkers : GetOptimalWorkers(n)

\* ---- claims about get_optimal_workers

\* C30: for n >= 1 get_optimal_workers(n) returns n when the memory status
\* is OK, the larger of 1 and n // 2 under WARNING and the larger of 1 and
\* n // 4 under CRITICAL; the result lies between 1 and n.
C30_OptimalWorkers ==
    (mm_call.called /\ mm_call.current_workers >= 1) =>
        LET n == mm_call.current_workers
            half == n \div 2
            quarter == n \div 4
        IN  /\ mm_call.status = "OK" => mm_call.ret = n
            /\ mm_call.status = "WARNING" =>
                   mm_call.ret = (IF half >= 1 THEN half ELSE 1)
            /\ mm_call.status = "CRITICAL" =>
                   mm_call.ret = (IF quarter >= 1 THEN quarter ELSE 1)
            /\ mm_call.ret >= 1
            /\ mm_call.ret <= n

\* a call under critical memory with fewer than four workers
C30_Witness ==
    /\ mm_call.called
    /\ mm_call.status = "CRITICAL"
    /\ mm_call.current_workers = 3
    /\ mm_call.ret = 1

(***************************************************************************)
(* Part 18  The optimized find_duplicates on more than ten candidates      *)
(*          src/diskcleaner/optimization/hash.py                           *)
(*                                                                         *)
(* The finder of Part 2, called on lists of ManyDupFiles readable files of *)
(* one size, so that all of them are candidates and the pool is used when  *)
(* use_parallel is set.                                                    *)
(***************************************************************************)
ManyShapes == [size : {1}, data : DataSyms, late : {FALSE}, kind : {"file"}]

ManyInit ==
    /\ dfiles \in [1..ManyDupFiles -> ManyShapes]
    /\ dcall = NoCall
    /\ dout = <<>>

ManyNext == OptFind

\* C32: the groups found with the hashes computed in the pool are the
\* groups found with the hashes computed one after the other.
C32_ParallelSameGroups ==
    (dcall # NoCall /\ dcall.use_parallel) =>
        dout = opt_find_duplicates(dfiles, FALSE)

(***************************************************************************)
(* Part 19  SmartCleanupEngine.analyze                                     *)
(*          src/diskcleaner/core/smart_cleanup.py                          *)
(*                                                                         *)
(* The scan hands analyze a list of files.  A file is a file of Part 2     *)
(* with three more fields: status, the value of the FileStatus that        *)
(* SafetyChecker.verify_file returns for it, and type and risk, the        *)
(* category and the risk level the classifier gives it; its age group is   *)
(* told by the mtime bucket.  The path of a file is its position in the    *)
(* list without the directories.                                           *)
(***************************************************************************)
FileStatusValues == {"safe", "locked", "no_permission", "protected", "error"}

RiskLevels == {"safe", "confirm_needed", "protected"}

AgeGroups == {"recent", "old"}

FileClasses ==
    {[type |-> "log", risk |-> "safe"], [type |-> "document", risk |-> "confirm_needed"]}

ReportFile(size, data, late, kind, status, class) ==
    [size |-> size, data |-> data, late |-> late, kind |-> kind,
     status |-> status, type |-> class.type, risk |-> class.risk]

ReportFiles ==
    {ReportFile(s, d, FALSE, "file", v, c) :
         s \in {4, 6}, d \in DataSyms, v \in FileStatusValues, c \in FileClasses}
        \cup {ReportFile(1, "a", FALSE, "dir", "safe",
                         [type |-> "log", risk |-> "safe"])}

\* lists with three files of one content and two of another, larger one
GroupedLists ==
    {[i \in 1..5 |-> ReportFile(IF i <= 3 THEN 4 ELSE 6, "a", i = 1, "file", v[i],
                                [type |-> "document", risk |-> "confirm_needed"])] :
         v \in [1..5 -> {"safe", "locked", "protected"}]}

ReportLists == UNION { [1..n -> ReportFiles] : n \in 0..MaxReportFiles } \cup GroupedLists

\* a list comprehension [x for x in items if keep(x)] over paths
Filter(items, keep(_)) == SelectSeq(items, keep)

\* FileClassifier.classify: the three dicts of lists
classifier_classify(file_list) ==
    LET all == Paths(file_list)
    IN  [by_type |-> [t \in {file_list[p].type : p \in DOMAIN file_list} |->
                          Filter(all, LAMBDA p : file_list[p].type = t)],
         by_risk |-> [r \in RiskLevels |->
                          Filter(all, LAMBDA p : file_list[p].risk = r)],
         by_age |-> [a \in AgeGroups |->
                          Filter(all, LAMBDA p : (IF file_list[p].late THEN "recent"
                                                  ELSE "old") = a)]]

\* smart_cleanup.py 142-147: the paths whose status is safe or confirm_needed
safe_files(file_list) ==
    {p \in DOMAIN file_list : file_list[p].status \in {"safe", "confirm_needed"}}

\* a filter that lets every file through
filter_nothing(list, safe) == list

\* smart_cleanup.py 150-163: [f for f in list if f.path in safe_files]
filter_safe(list, safe) == Filter(list, LAMBDA p : p \in safe)

\* smart_cleanup.py 166-179: the groups with more than one safe file, each
\* built anew from its safe files
RECURSIVE safe_duplicates(_, _)
safe_duplicates(duplicates, safe) ==
    IF duplicates = <<>> THEN <<>>
    ELSE LET g == Head(duplicates)
             kept == filter_safe(g.files, safe)
         IN  (IF Len(kept) > 1 THEN <<CoreGroup(kept, g.size, g.hash_value)>> ELSE <<>>)
                 \o safe_duplicates(Tail(duplicates), safe)

NoReport ==
    [returned |-> FALSE, by_type |-> <<>>, by_risk |-> <<>>, by_age |-> <<>>,
     duplicates |-> <<>>, total_files |-> 0]

\* SmartCleanupEngine.analyze(include_duplicates, safety_check) on the files
\* the scan returned
analyze(files, include_duplicates, safety_check) ==
    LET file_list == SelectSeq(files, LAMBDA f : f.kind # "dir")
        classification == classifier_classify(file_list)
        duplicates == IF include_duplicates
                        THEN core_find_duplicates(file_list, "adaptive") ELSE <<>>
        safe == safe_files(file_list)
    IN  [returned |-> TRUE,
         by_type |-> IF safety_check
                       THEN [t \in DOMAIN classification.by_type |->
                                filter_safe(classification.by_type[t], safe)]
                       ELSE classification.by_type,
         by_risk |-> IF safety_check
                       THEN [r \in DOMAIN classification.by_risk |->
                                filter_safe(classification.by_risk[r], safe)]
                       ELSE classification.by_risk,
         by_age |-> IF safety_check
                      THEN [a \in DOMAIN classification.by_age |->
                               filter_safe(classification.by_age[a], safe)]
                      ELSE classification.by_age,
         duplicates |-> IF safety_check /\ duplicates # <<>>
                          THEN safe_duplicates(duplicates, safe) ELSE duplicates,
         total_files |-> Len(file_list)]

ReportInit ==
    /\ an_call \in [files : ReportLists, include_duplicates : BOOLEAN,
                    safety_check : BOOLEAN]
    /\ an_report = NoReport

Analyze ==
    /\ ~an_report.returned
    /\ an_report' = analyze(an_call.files, an_call.include_duplicates,
                            an_call.safety_check)
    /\ UNCHANGED an_call

ReportNext == Analyze

\* ---- claims about the report

AnFileList == SelectSeq(an_call.files, LAMBDA f : f.kind # "dir")

\* the paths whose verdict is LOCKED, NO_PERMISSION or PROTECTED
Unsafe ==
    {p \in DOMAIN AnFileList :
        AnFileList[p].status \in {"locked", "no_permission", "protected"}}

\* the paths named in a dict of lists
Listed(d) == UNION {ToSet(d[k]) : k \in DOMAIN d}

\* C33: with safety_check, no file whose verdict is LOCKED, NO_PERMISSION or
\* PROTECTED is in a by_type, by_risk or by_age list or in a duplicate group
\* of the report, and every duplicate group of the report has two members or
\* more.
C33_ReportIsSafe ==
    (an_report.returned /\ an_call.safety_check) =>
        /\ Listed(an_report.by_type) \cap Unsafe = {}
        /\ Listed(an_report.by_risk) \cap Unsafe = {}
        /\ Listed(an_report.by_age) \cap Unsafe = {}
        /\ \A j \in DOMAIN an_report.duplicates :
               /\ ToSet(an_report.duplicates[j].files) \cap Unsafe = {}
               /\ Len(an_report.duplicates[j].files) >= 2

\* a group of three lost its unsafe member and stays in the report with two
C33_Witness ==
    /\ an_report.returned
    /\ an_call.safety_check
    /\ Unsafe # {}
    /\ \E j \in DOMAIN an_report.duplicates :
           /\ Len(an_report.duplicates[j].files) = 2
           /\ an_report.duplicates[j].size = 4
    /\ \E t \in DOMAIN an_report.by_type : an_report.by_type[t] # <<>>

\* C38: the duplicates of the report are ordered by reclaimable_space,
\* largest first.
C38_DuplicatesSorted ==
    an_report.returned =>
        \A j \in DOMAIN an_report.duplicates :
            j > 1 => an_report.duplicates[j - 1].reclaimable_space
                         >= an_report.duplicates[j].reclaimable_space

(***************************************************************************)
(* Part 20  IncrementalCache.invalidate and clear_all                      *)
(*          src/diskcleaner/optimization/scan.py                           *)
(*                                                                         *)
(* The IncrementalCache of Part 7 with its two removing operations beside  *)
(* the saves, the gets, the new processes, the damage and the days of      *)
(* Part 7.                                                                 *)
(***************************************************************************)
\* an invalidate that removes the file and leaves the memory layer alone
inc_invalidate_file_only(memory, files, r) ==
    [memory |-> memory, files |-> [files EXCEPT ![cache_path(r)] = NoFile]]

\* IncrementalCache.invalidate(r): the entry of the memory layer and the
\* cache file of r go
inc_invalidate(memory, files, r) ==
    [memory |-> [memory EXCEPT ![r] = NoSnapshot],
     files |-> [files EXCEPT ![cache_path(r)] = NoFile]]

\* IncrementalCache.clear_all(): the memory layer is emptied and every
\* *.json file of the cache directory is removed
inc_clear_all(memory, files) ==
    [memory |-> [r \in DOMAIN memory |-> NoSnapshot],
     files |-> [p \in DOMAIN files |-> NoFile]]

NoCacheOp == [op |-> "none", root |-> 0]

InvalidateInit ==
    /\ CacheInit
    /\ c_impl = "incremental"
    /\ c_invalidated = {}
    /\ c_op = NoCacheOp

CacheInvalidate(r) ==
    /\ LET i == inc_invalidate(c_memory, c_files, r)
       IN  /\ c_memory' = i.memory
           /\ c_files' = i.files
    /\ c_stored' = [c_stored EXCEPT ![r] = FALSE]
    /\ c_got' = NoGet
    /\ c_invalidated' = c_invalidated \cup {r}
    /\ c_op' = [op |-> "invalidate", root |-> r]
    /\ UNCHANGED <<cacheConfig, c_now, c_put, c_put_here>>

CacheClearAll ==
    /\ LET i == inc_clear_all(c_memory, c_files)
       IN  /\ c_memory' = i.memory
           /\ c_files' = i.files
    /\ c_stored' = [r \in CacheRoots |-> FALSE]
    /\ c_got' = NoGet
    /\ c_invalidated' = CacheRoots
    /\ c_op' = [op |-> "clear_all", root |-> 0]
    /\ UNCHANGED <<cacheConfig, c_now, c_put, c_put_here>>

InvalidateNext ==
    \/ \E r \in CacheRoots, items \in SnapshotItems, written \in BOOLEAN :
          /\ CacheSave(r, items, written)
          /\ c_invalidated' = c_invalidated \ {r}
          /\ c_op' = [op |-> "save", root |-> r]
    \/ \E r \in CacheRoots :
          /\ CacheGet(r)
          /\ c_op' = [op |-> "get", root |-> r]
          /\ UNCHANGED c_invalidated
    \/ CacheFresh /\ c_op' = [op |-> "fresh", root |-> 0] /\ UNCHANGED c_invalidated
    \/ \E p \in CacheRoots, defect \in Defects :
          /\ CacheDamage(p, defect)
          /\ c_op' = [op |-> "damage", root |-> p]
          /\ UNCHANGED c_invalidated
    \/ CacheTick /\ c_op' = [op |-> "tick", root |-> 0] /\ UNCHANGED c_invalidated
    \/ \E r \in CacheRoots : CacheInvalidate(r)
    \/ CacheClearAll

\* ---- claims about invalidate and clear_all

\* C34: a get_cached_snapshot for a root that was invalidated, by
\* invalidate(root) or by clear_all(), and not saved since returns none,
\* whatever saves and gets came before; and invalidate(root) leaves the
\* memory entry and the cache file of every other root as they were.
C34_InvalidatedIsGone ==
    /\ [](\A r \in CacheRoots :
             (c_got # NoGet /\ c_got.root = r /\ r \in c_invalidated)
                 => (~c_got.raised /\ c_got.ret = NoSnapshot))
    /\ [][c_op'.op = "invalidate" =>
             \A q \in CacheRoots \ {c_op'.root} :
                 /\ c_memory'[q] = c_memory[q]
                 /\ c_files'[cache_path(q)] = c_files[cache_path(q)]]_vars

\* root 1 was saved and served, then invalidated, and the get that follows
\* finds nothing, while root 2 is still held in memory and on disk
C34_Witness ==
    /\ c_op = [op |-> "get", root |-> 1]
    /\ 1 \in c_invalidated
    /\ c_put[1] # NoSnapshot
    /\ c_put_here[1]
    /\ c_got.ret = NoSnapshot
    /\ c_memory[2] # NoSnapshot
    /\ c_files[cache_path(2)] # NoFile

(***************************************************************************)
(* Part 21  HashCache.get_or_compute, step by step                         *)
(*          src/diskcleaner/optimization/hash.py                           *)
(*                                                                         *)
(* The HashCache of Part 9 with the miss of get_or_compute taken in two    *)
(* steps: the lookup that finds no key, then the call of compute_func and  *)
(* the insertion of what it returns.  Both are inside the `with` block.    *)
(* h_computes counts, for each key, the calls of compute_func that         *)
(* returned a digest since the key was last taken out of the cache.  A     *)
(* file whose stat() raises has no key and is not counted.                 *)
(***************************************************************************)
\* the calls made on the cache: get_or_compute, and the put and invalidate
\* that fill the cache and take entries out
ComputeCalls == {call \in HashCalls : call.op \in {"get_or_compute", "put", "invalidate"}}

ComputeInit ==
    /\ HashInit
    /\ h_computes = [k \in HashKeys |-> 0]

\* get_or_compute with a compute_func finds no key: self.misses += 1
GocMiss(t) ==
    /\ h_thread[t].pc = "locked"
    /\ h_thread[t].op = "get_or_compute"
    /\ h_thread[t].value # "none"
    /\ ~HasKey(h_cache, h_thread[t].key)
    /\ h_thread' = [h_thread EXCEPT ![t].pc = "computing"]
    /\ UNCHANGED <<h_cache, h_lock, h_ret, h_recency, h_evicted>>

\* hash_value = compute_func(file); a digest is stored and moved to the
\* end, an empty value is returned and not stored
GocCompute(t) ==
    /\ h_thread[t].pc = "computing"
    /\ h_ret' = [h_ret EXCEPT ![t] = h_thread[t].value]
    /\ IF h_thread[t].value # ""
         THEN /\ h_cache' = move_to_end(SetItem(h_cache, h_thread[t].key,
                                                h_thread[t].value),
                                        h_thread[t].key)
              /\ h_recency' = Used(h_recency, h_thread[t].key)
              /\ h_thread' = [h_thread EXCEPT ![t].pc = "stored"]
         ELSE /\ h_thread' = [h_thread EXCEPT ![t].pc = "release"]
              /\ UNCHANGED <<h_cache, h_recency>>
    /\ UNCHANGED <<h_lock, h_evicted>>

\* the step is a call of compute_func for key k that returns a digest
Computes(k) ==
    \E t \in HashThreads :
        /\ h_thread[t].pc = "computing"
        /\ h_thread'[t].pc = "stored"
        /\ h_thread[t].key = k

\* the step takes key k out of the cache
Removes(k) == HasKey(h_cache, k) /\ ~HasKey(h_cache', k)

ComputeNext ==
    /\ \E t \in HashThreads :
          \/ \E call \in ComputeCalls : HashCall(t, call)
          \/ \E call \in ComputeCalls : HashStatFails(t, call)
          \/ HashAcquire(t)
          \/ HashHit(t)
          \/ HashMiss(t) /\ h_thread[t].value = "none"
          \/ GocMiss(t)
          \/ GocCompute(t)
          \/ HashStore(t) /\ h_thread[t].op = "put"
          \/ HashEvict(t)
          \/ HashInvalidate(t)
          \/ HashRelease(t)
    /\ h_computes' = [k \in HashKeys |->
                         IF Removes(k) THEN 0
                         ELSE IF Computes(k) THEN h_computes[k] + 1
                         ELSE h_computes[k]]

\* ---- claims about get_or_compute

\* C35: whatever the threads do, for each key compute_func returns a digest
\* at most once while the entry stays in the cache (a get_or_compute that
\* finds the key does not compute), a get_or_compute that ends with the key
\* in the cache returns the value the cache holds, and no entry holds an
\* empty value.
C35_ComputedOnce ==
    /\ \A k \in HashKeys : h_computes[k] <= 1
    /\ \A i \in DOMAIN h_cache : h_cache[i].value # ""
    /\ \A t \in HashThreads :
           ( /\ h_thread[t].pc = "release"
             /\ h_thread[t].op = "get_or_compute"
             /\ HasKey(h_cache, h_thread[t].key) )
           => h_ret[t] = ValueOf(h_cache, h_thread[t].key)

\* two threads asked for key 1 at the same time: the first computed and
\* stored the digest, the second waited for the lock and was served from the
\* cache; one compute, the same digest for both
C35_Witness ==
    /\ CacheKeys(h_cache) = <<1>>
    /\ h_computes[1] = 1
    /\ h_thread[1] = IdleThread
    /\ h_ret[1] = "h"
    /\ h_thread[2].pc = "release"
    /\ h_thread[2].op = "get_or_compute"
    /\ h_thread[2].key = 1
    /\ h_ret[2] = "h"

(***************************************************************************)
(* Part 22  ConcurrentScanner.scan, the turns of the loops step by step    *)
(*          src/diskcleaner/optimization/scan.py                           *)
(*                                                                         *)
(* The scan of Part 1 with two refinements.  A turn of a worker's loop     *)
(* over the entries of its directory is taken in two steps: the test of    *)
(* the stop signal, then stat() and the append under result_lock; the      *)
(* signal can be set in between.  And the listing of the root can raise    *)
(* at any turn of the seeding loop (readdir fails, memory runs out), not   *)
(* only when it is opened: `except Exception` catches that as well.        *)
(***************************************************************************)
\* scan.py 346: `for entry in entries` raises in the seeding thread
MainSeedRaises ==
    /\ mpc = "seed"
    /\ mpc' = "except"
    /\ UNCHANGED <<inputVars, work_queue, unfinished, stop_event, results, stats,
                   mentries, mpending, result, workerVars, stop_causes, dropped>>

\* scan.py 278-280: the next entry is taken and the stop signal is tested
WorkerCheck(w) ==
    /\ wpc[w] = "scan"
    /\ wpc' = [wpc EXCEPT ![w] = IF wentries[w] = <<>> \/ stop_event
                                   THEN "put" ELSE "record"]
    /\ UNCHANGED <<inputVars, work_queue, unfinished, stop_event, results, stats,
                   mainVars, wdir, wentries, wsub, stop_causes, dropped>>

\* scan.py 282-305: stat() and the append under result_lock, or the count
\* of the error
WorkerRecord(w) ==
    /\ wpc[w] = "record"
    /\ LET e == Head(wentries[w]) IN
       /\ wentries' = [wentries EXCEPT ![w] = Tail(@)]
       /\ wpc' = [wpc EXCEPT ![w] = "scan"]
       /\ IF tree.kind[e] = "nostat"
            THEN /\ CountError
                 /\ UNCHANGED wsub
            ELSE /\ Record(e)
                 /\ IF is_dir(e) /\ ~should_exclude(e)
                      THEN wsub' = [wsub EXCEPT ![w] = Append(@, e)]
                      ELSE UNCHANGED wsub
    /\ UNCHANGED <<inputVars, work_queue, unfinished, stop_event,
                   mainVars, wdir, stop_causes, dropped>>

ReturnNext ==
    \/ MainNoDirectory
    \/ MainStart
    \/ MainSeed
    \/ MainSeedRaises
    \/ MainPut
    \/ MainJoin
    \/ MainSetStop
    \/ MainJoinWorkers
    \/ MainJoinTimeout
    \/ MainExcept
    \/ MainReturn
    \/ \E w \in Workers : WorkerLoop(w)
    \/ \E w \in Workers : WorkerGet(w)
    \/ \E w \in Workers : WorkerMemoryStop(w)
    \/ \E w \in Workers : WorkerOpen(w)
    \/ \E w \in Workers : WorkerCheck(w)
    \/ \E w \in Workers : WorkerRecord(w)
    \/ \E w \in Workers : WorkerPut(w)
    \/ \E w \in Workers : WorkerPutFull(w)
    \/ \E w \in Workers : WorkerTaskDone(w)

\* ---- claims about the return of scan

\* C36: from the moment scan has returned, on every exit path, total_count of
\* the result equals the length of the returned items list, which no worker
\* appends to any more.
C36_QuietAfterReturn ==
    result.returned => result.total_count = Len(results)

(***************************************************************************)
(* Part 23  ConcurrencyManager.get_thread_pool from several threads        *)
(*          src/diskcleaner/optimization/concurrency.py                    *)
(*                                                                         *)
(* The manager of Part 16 with get_thread_pool taken statement by          *)
(* statement: the lookup of the purpose, the construction of the executor, *)
(* the assignment to the registry.  The manager holds no lock, so the      *)
(* statements of two callers interleave.  get_process_pool is the same     *)
(* code over process_pools.  shutdown_all is called once no get is under   *)
(* way; the callers then start again.                                      *)
(***************************************************************************)
Callers == {1, 2}

IdleCaller == [pc |-> "idle", purpose |-> "", pool |-> 0, ret |-> 0]

RaceInit ==
    /\ ManagerInit
    /\ g_caller = [t \in Callers |-> IdleCaller]

\* a thread calls get_thread_pool(purpose)
GetCall(t, purpose) ==
    /\ g_caller[t].pc \in {"idle", "returned"}
    /\ g_caller' = [g_caller EXCEPT ![t] =
                       [pc |-> "lookup", purpose |-> purpose, pool |-> 0, ret |-> 0]]
    /\ UNCHANGED managerVars

\* concurrency.py 41-42: if purpose in self.thread_pools: return the pool
GetLookup(t) ==
    /\ g_caller[t].pc = "lookup"
    /\ g_caller' = [g_caller EXCEPT ![t] =
                       IF g_caller[t].purpose \in DOMAIN thread_pools
                         THEN [@ EXCEPT !.pc = "returned",
                                        !.ret = thread_pools[g_caller[t].purpose].id]
                         ELSE [@ EXCEPT !.pc = "create"]]
    /\ UNCHANGED managerVars

\* concurrency.py 44-45: pool = ThreadPoolExecutor(...)
GetCreate(t) ==
    /\ g_caller[t].pc = "create"
    /\ cm_created < MaxPools
    /\ cm_created' = cm_created + 1
    /\ g_caller' = [g_caller EXCEPT ![t].pc = "store", ![t].pool = cm_created + 1]
    /\ UNCHANGED <<thread_pools, process_pools, cm_initialized, cm_dead, cm_live,
                   cm_call>>

\* concurrency.py 46-48: self.thread_pools[purpose] = pool; return pool
GetStore(t) ==
    /\ g_caller[t].pc = "store"
    /\ thread_pools' = register(thread_pools, g_caller[t].purpose,
                                [id |-> g_caller[t].pool, kind |-> "thread",
                                 max_workers |-> 0])
    /\ cm_initialized' = TRUE
    /\ cm_live' = cm_live \cup {<<"thread", g_caller[t].purpose>>}
    /\ g_caller' = [g_caller EXCEPT ![t].pc = "returned", ![t].ret = g_caller[t].pool]
    /\ UNCHANGED <<process_pools, cm_created, cm_dead, cm_call>>

\* shutdown_all() once no get is under way
RaceShutdownAll ==
    /\ \A t \in Callers : g_caller[t].pc \in {"idle", "returned"}
    /\ \E t \in Callers : g_caller[t].pc = "returned"
    /\ ShutdownAll
    /\ g_caller' = [t \in Callers |-> IdleCaller]

RaceNext ==
    \/ \E t \in Callers, purpose \in Purposes : GetCall(t, purpose)
    \/ \E t \in Callers : GetLookup(t)
    \/ \E t \in Callers : GetCreate(t)
    \/ \E t \in Callers : GetStore(t)
    \/ RaceShutdownAll

\* ---- claims about concurrent gets

\* the executors made, not shut down, not in the registry and not about to
\* be put there
Orphans ==
    (1..cm_created)
        \ (cm_dead \cup PoolIds(thread_pools)
              \cup {g_caller[t].pool : t \in {u \in Callers : g_caller[u].pc = "store"}})

\* C37: callers of get_thread_pool for one purpose, whatever the
\* interleaving, all get the same pool, and every pool made is in the
\* registry until it is shut down.
C37_OnePoolForAllCallers ==
    /\ \A t, u \in Callers :
           ( /\ g_caller[t].pc = "returned"
             /\ g_caller[u].pc = "returned"
             /\ g_caller[t].purpose = g_caller[u].purpose )
           => g_caller[t].ret = g_caller[u].ret
    /\ Orphans = {}

(***************************************************************************)
(* Part 24  DirectoryScanner.scan_incremental, called twice                *)
(*          src/diskcleaner/core/scanner.py, src/diskcleaner/core/cache.py *)
(*                                                                         *)
(* scan_incremental of Part 8 together with the CacheManager of Part 7:    *)
(* each call asks the manager for the snapshot of the root, enumerates the *)
(* tree, and saves a new snapshot.  A FileInfo is [path, size, mtime,      *)
(* inode, is_dir]; the tree is the list that scan_generator yields.        *)
(* Between the calls days pass and the tree may change.  The cache file is *)
(* damaged by nobody here.                                                 *)
(***************************************************************************)
\* the root scanned, one of CacheRoots
ScanRoot == 1

TwicePaths == {1, 2}

\* the FileInfo a path can have: a file, older or newer, with an inode or
\* with none, or a directory (size 0)
TwiceRecords(p) ==
    [path : {p}, size : {1}, mtime : {1, 2}, inode : {1}, is_dir : {FALSE}]
        \cup [path : {p}, size : {1}, mtime : {1}, inode : {0}, is_dir : {FALSE}]
        \cup [path : {p}, size : {0}, mtime : {1}, inode : {1}, is_dir : {TRUE}]

TwiceTrees ==
    { <<>> } \cup { <<r>> : r \in TwiceRecords(1) \cup TwiceRecords(2) }
        \cup { <<r, s>> : r \in TwiceRecords(1), s \in TwiceRecords(2) }

\* FileInfo.to_snapshot
to_snapshot(f) == [path |-> f.path, size |-> f.size, mtime |-> f.mtime, inode |-> f.inode]

\* a manager that never has a snapshot
scan_cache_never(max_age, t, files) == NoCache

\* scanner.py 108-113: cache_manager.get_scan_cache(target_path, max_age_days):
\* the files of the snapshot, or NoCache
scan_cache(max_age, t, files) ==
    LET g == mgr_get(max_age, t, <<>>, files, ScanRoot)
    IN  IF g.ret = NoSnapshot THEN NoCache ELSE g.ret.files

\* the cache directory after get_scan_cache, which removes an expired file
files_after_get(max_age, t, files) == mgr_get(max_age, t, <<>>, files, ScanRoot).files

\* scan_incremental: the tuple returned and the files of the snapshot saved
scan_incremental(cached, current) ==
    LET lists == classify(current, cached, 1,
                          [new_files |-> <<>>, changed_files |-> <<>>])
        saved == [i \in DOMAIN current |-> to_snapshot(current[i])]
    IN  IF cached = NoCache
          THEN [all_files |-> current, new_files |-> PathList(current),
                changed_files |-> <<>>, saved |-> saved]
          ELSE [all_files |-> current, new_files |-> lists.new_files,
                changed_files |-> lists.changed_files, saved |-> saved]

\* the snapshot of an earlier scan that the cache directory may hold at the
\* start
EarlierFiles ==
    { <<>>, <<[path |-> 1, size |-> 1, mtime |-> 1, inode |-> 1]>> }

\* the cache directory at the start: empty, or with the file of an earlier
\* scan of the root
EarlierCaches ==
    { [p \in CacheRoots |-> NoFile] }
        \cup { [p \in CacheRoots |->
                  IF p = cache_path(ScanRoot)
                    THEN [mtime |-> 0, defect |-> "none",
                          doc |-> mgr_to_dict(MgrSnapshot(ScanRoot, 0, l))]
                    ELSE NoFile] : l \in EarlierFiles }

TwiceInit ==
    /\ c_impl = "manager"
    /\ c_ttl \in TtlDays
    /\ c_now = 0
    /\ c_memory = [r \in CacheRoots |-> NoSnapshot]
    /\ c_files \in EarlierCaches
    /\ c_put = [r \in CacheRoots |-> NoSnapshot]
    /\ c_put_here = [r \in CacheRoots |-> FALSE]
    /\ c_stored = [r \in CacheRoots |-> FALSE]
    /\ c_got = NoGet
    /\ t_tree \in TwiceTrees
    /\ t_calls = <<>>

\* one call of scan_incremental; the save writes its file unless open() is
\* refused
ScanIncremental(written) ==
    /\ Len(t_calls) < 2
    /\ LET cached == scan_cache(c_ttl, c_now, c_files)
           files1 == files_after_get(c_ttl, c_now, c_files)
           r == scan_incremental(cached, t_tree)
           s == MgrSnapshot(ScanRoot, c_now, r.saved)
       IN  /\ c_files' = IF written
                           THEN [files1 EXCEPT ![cache_path(ScanRoot)] =
                                    [mtime |-> c_now, defect |-> "none",
                                     doc |-> mgr_to_dict(s)]]
                           ELSE files1
           /\ t_calls' = Append(t_calls,
                  [tree |-> t_tree, at |-> c_now, written |-> written,
                   cold |-> cached = NoCache,
                   all_files |-> r.all_files, new_files |-> r.new_files,
                   changed_files |-> r.changed_files, saved |-> r.saved])
    /\ UNCHANGED <<cacheConfig, c_now, c_memory, c_put, c_put_here, c_stored, c_got,
                   t_tree>>

\* files are added, removed or modified below the root, between the calls
TreeChanges(listing) ==
    /\ Len(t_calls) = 1
    /\ listing # t_tree
    /\ t_tree' = listing
    /\ UNCHANGED <<cacheVars, t_calls>>

TwiceNext ==
    \/ \E written \in BOOLEAN : ScanIncremental(written)
    \/ \E listing \in TwiceTrees : TreeChanges(listing)
    \/ CacheTick /\ Len(t_calls) < 2 /\ UNCHANGED twiceVars

\* ---- claims about two calls

\* two calls were made on the same tree, the first wrote its snapshot, and
\* the second came before the TTL of that snapshot was reached
SecondOnUnchanged ==
    /\ Len(t_calls) = 2
    /\ t_calls[1].tree = t_calls[2].tree
    /\ t_calls[1].written
    /\ t_calls[2].at - t_calls[1].at < c_ttl

\* C39: the second of two scan_incremental calls on a tree that did not
\* change, made before the TTL is reached on the snapshot that the first call
\* wrote, returns the files of the first call, an empty new list and an empty
\* changed list, and saves a snapshot with the paths, sizes, mtimes and
\* inodes that the first call saved.
C39_SecondScanFindsNoChange ==
    SecondOnUnchanged =>
        /\ ToSet(t_calls[2].all_files) = ToSet(t_calls[1].all_files)
        /\ t_calls[2].new_files = <<>>
        /\ t_calls[2].changed_files = <<>>
        /\ ToSet(t_calls[2].saved) = ToSet(t_calls[1].saved)

\* a first full scan of a tree with a file and a directory, then a second
\* scan of the same tree that was served by the cache
C39_Witness ==
    /\ SecondOnUnchanged
    /\ t_calls[1].cold
    /\ ~t_calls[2].cold
    /\ Len(t_calls[1].all_files) = 2
    /\ t_calls[1].new_files = <<1, 2>>
    /\ \E i \in 1..2 : t_calls[1].all_files[i].is_dir

(***************************************************************************)
(* The specifications.  Each one runs one part of the program and leaves   *)
(* the variables of the other parts at rest.                               *)
(***************************************************************************)
ScanIdle ==
    /\ tree = [n |-> 0, kind |-> <<>>, parent |-> <<>>]
    /\ rootState = "missing"
    /\ hasMonitor = FALSE
    /\ max_workers = 1
    /\ work_queue = <<>>
    /\ unfinished = 0
    /\ stop_event = FALSE
    /\ results = <<>>
    /\ stats = [count |-> 0, errors |-> 0, size |-> 0]
    /\ mpc = "idle"
    /\ mentries = <<>>
    /\ mpending = 0
    /\ result = NoResult
    /\ wpc = <<"idle">>
    /\ wdir = <<0>>
    /\ wentries = << <<>> >>
    /\ wsub = << <<>> >>
    /\ stop_causes = {}
    /\ dropped = {}

DupIdle ==
    /\ dfiles = <<>>
    /\ dcall = NoManagerCall
    /\ dout = <<>>

SafetyIdle ==
    /\ sfile = [path |-> <<>>, name |-> <<>>]
    /\ sconfig = [protected_paths |-> {}, protected_extensions |-> {},
                  protected_patterns |-> {}, check_locks |-> TRUE,
                  verify_perms |-> TRUE]
    /\ splatform = "Linux"
    /\ senv = [open_fails |-> FALSE, lsof |-> "rc1", writable |-> TRUE]
    /\ sverdict = NoVerdict

DeleteIdle ==
    /\ del_files = <<>>
    /\ progress_callback = FALSE
    /\ present = DelPaths \ {"gone"}
    /\ del_pc = "idle"
    /\ del_i = 0
    /\ success = <<>>
    /\ failed = <<>>
    /\ cancelled = FALSE
    /\ total_size = 0
    /\ attempted = <<>>
    /\ del_result = NoDeleteResult

RedeleteIdle ==
    /\ present0 = DelPaths \ {"gone"}
    /\ del_calls = 0
    /\ smart_cfg = [use_recycle_bin |-> FALSE, large_file_threshold |-> 50]
    /\ smart_env = [os_name |-> "posix", send2trash |-> "absent"]
    /\ trash = {}
    /\ smart_log = <<>>

AsyncIdle ==
    /\ a_files = <<>>
    /\ a_stop = FALSE
    /\ a_pc = "done"
    /\ a_next = 0
    /\ a_state = <<>>
    /\ a_completed = <<>>
    /\ a_results = <<>>
    /\ a_totals = [deleted |-> 0, failed |-> 0]
    /\ a_worker = [w \in AsyncWorkers |-> IdleWorker]
    /\ a_gone = {}
    /\ a_cancel_issued = FALSE
    /\ a_after = [w \in AsyncWorkers |-> 0]

CacheIdle ==
    /\ c_impl = "incremental"
    /\ c_ttl = 0
    /\ c_now = 0
    /\ c_memory = [r \in CacheRoots |-> NoSnapshot]
    /\ c_files = [p \in CacheRoots |-> NoFile]
    /\ c_put = [r \in CacheRoots |-> NoSnapshot]
    /\ c_put_here = [r \in CacheRoots |-> FALSE]
    /\ c_stored = [r \in CacheRoots |-> FALSE]
    /\ c_got = NoGet

IncIdle ==
    /\ i_cached = NoCache
    /\ i_current = <<>>
    /\ i_deleted = <<>>
    /\ i_saved = NoCache
    /\ i_result = NoIncResult

HashIdle ==
    /\ h_cache = <<>>
    /\ h_lock = 0
    /\ h_thread = [t \in HashThreads |-> IdleThread]
    /\ h_ret = [t \in HashThreads |-> "none"]
    /\ h_recency = <<>>
    /\ h_evicted = 0

ParIdle ==
    /\ ph_files = <<>>
    /\ ph_pc = "returned"
    /\ ph_state = <<>>
    /\ ph_overdue = {}
    /\ ph_result = <<>>

MgrIdle ==
    /\ m_updates = <<>>
    /\ m_result = NoDeleteResult

StrategyIdle ==
    /\ dm_strategy = "smart"
    /\ dm_pc = "returned"

UiIdle ==
    /\ ui_call = [files |-> <<>>, dry_run |-> TRUE, backup |-> FALSE, typed |-> <<>>]
    /\ ui_fs = {}
    /\ ui_pc = "returned"
    /\ ui_ret = "False"

RootIdle ==
    /\ root_excluded = FALSE

WalkIdle ==
    /\ w_in = [parent |-> [d \in WalkDirs \ {0} |-> 0], links |-> <<>>,
               follow_symlinks |-> FALSE, scanner |-> "core"]
    /\ w_pc = "done"
    /\ w_stack = <<>>
    /\ w_queue = <<>>
    /\ w_visited = {}
    /\ w_listed = <<>>

ManagerIdle ==
    /\ thread_pools = NoPools
    /\ process_pools = NoPools
    /\ cm_initialized = FALSE
    /\ cm_created = 0
    /\ cm_dead = {}
    /\ cm_live = {}
    /\ cm_call = NoManagerCall

MonitorIdle ==
    /\ mm_threshold_mb = 1
    /\ mm_usage = 0
    /\ mm_call = NoWorkersCall

ReportIdle ==
    /\ an_call = [files |-> <<>>, include_duplicates |-> FALSE, safety_check |-> FALSE]
    /\ an_report = NoReport

InvalidateIdle ==
    /\ c_invalidated = {}
    /\ c_op = NoCacheOp

ComputeIdle ==
    /\ h_computes = [k \in HashKeys |-> 0]

RaceIdle ==
    /\ g_caller = [t \in Callers |-> IdleCaller]

TwiceIdle ==
    /\ t_tree = <<>>
    /\ t_calls = <<>>

\* ConcurrentScanner.scan
Init ==
    ScanInit /\ DupIdle /\ SafetyIdle /\ DeleteIdle /\ RedeleteIdle
      /\ AsyncIdle /\ CacheIdle /\ IncIdle /\ HashIdle /\ ParIdle /\ MgrIdle
      /\ StrategyIdle /\ UiIdle /\ RootIdle /\ WalkIdle /\ ManagerIdle
      /\ MonitorIdle /\ ReportIdle /\ InvalidateIdle /\ ComputeIdle
      /\ RaceIdle /\ TwiceIdle

Next ==
    ScanNext /\ UNCHANGED <<dupVars, safetyVars, deleteVars, redelVars,
      asyncVars, cacheVars, incVars, hashVars, parVars, mgrVars,
      strategyVars, uiVars, rootVars, walkVars, managerVars, monitorVars,
      reportVars, invalidateVars, computeVars, raceVars, twiceVars>>

Spec == Init /\ [][Next]_vars

\* find_duplicates
DupSpecInit ==
    DupInit /\ ScanIdle /\ SafetyIdle /\ DeleteIdle /\ RedeleteIdle
      /\ AsyncIdle /\ CacheIdle /\ IncIdle /\ HashIdle /\ ParIdle /\ MgrIdle
      /\ StrategyIdle /\ UiIdle /\ RootIdle /\ WalkIdle /\ ManagerIdle
      /\ MonitorIdle /\ ReportIdle /\ InvalidateIdle /\ ComputeIdle
      /\ RaceIdle /\ TwiceIdle

DupSpecNext ==
    DupNext /\ UNCHANGED <<scanVars, safetyVars, deleteVars, redelVars,
      asyncVars, cacheVars, incVars, hashVars, parVars, mgrVars,
      strategyVars, uiVars, rootVars, walkVars, managerVars, monitorVars,
      reportVars, invalidateVars, computeVars, raceVars, twiceVars>>

DupSpec == DupSpecInit /\ [][DupSpecNext]_vars

\* SafetyChecker.verify_file
SafetySpecInit ==
    SafetyInit /\ ScanIdle /\ DupIdle /\ DeleteIdle /\ RedeleteIdle
      /\ AsyncIdle /\ CacheIdle /\ IncIdle /\ HashIdle /\ ParIdle /\ MgrIdle
      /\ StrategyIdle /\ UiIdle /\ RootIdle /\ WalkIdle /\ ManagerIdle
      /\ MonitorIdle /\ ReportIdle /\ InvalidateIdle /\ ComputeIdle
      /\ RaceIdle /\ TwiceIdle

SafetySpecNext ==
    SafetyNext /\ UNCHANGED <<scanVars, dupVars, deleteVars, redelVars,
      asyncVars, cacheVars, incVars, hashVars, parVars, mgrVars,
      strategyVars, uiVars, rootVars, walkVars, managerVars, monitorVars,
      reportVars, invalidateVars, computeVars, raceVars, twiceVars>>

SafetySpec == SafetySpecInit /\ [][SafetySpecNext]_vars

\* BatchDeleter.delete_with_progress
DeleteSpecInit ==
    DeleteInit /\ ScanIdle /\ DupIdle /\ SafetyIdle /\ RedeleteIdle
      /\ AsyncIdle /\ CacheIdle /\ IncIdle /\ HashIdle /\ ParIdle /\ MgrIdle
      /\ StrategyIdle /\ UiIdle /\ RootIdle /\ WalkIdle /\ ManagerIdle
      /\ MonitorIdle /\ ReportIdle /\ InvalidateIdle /\ ComputeIdle
      /\ RaceIdle /\ TwiceIdle

DeleteSpecNext ==
    DeleteNext /\ UNCHANGED <<scanVars, dupVars, safetyVars, redelVars,
      asyncVars, cacheVars, incVars, hashVars, parVars, mgrVars,
      strategyVars, uiVars, rootVars, walkVars, managerVars, monitorVars,
      reportVars, invalidateVars, computeVars, raceVars, twiceVars>>

DeleteSpec == DeleteSpecInit /\ [][DeleteSpecNext]_vars

\* delete_with_progress called again, and SmartDeleter.delete_file
RedeleteSpecInit ==
    RedeleteInit /\ ScanIdle /\ DupIdle /\ SafetyIdle /\ AsyncIdle
      /\ CacheIdle /\ IncIdle /\ HashIdle /\ ParIdle /\ MgrIdle
      /\ StrategyIdle /\ UiIdle /\ RootIdle /\ WalkIdle /\ ManagerIdle
      /\ MonitorIdle /\ ReportIdle /\ InvalidateIdle /\ ComputeIdle
      /\ RaceIdle /\ TwiceIdle

RedeleteSpecNext ==
    RedeleteNext /\ UNCHANGED <<scanVars, dupVars, safetyVars, asyncVars,
      cacheVars, incVars, hashVars, parVars, mgrVars, strategyVars, uiVars,
      rootVars, walkVars, managerVars, monitorVars, reportVars,
      invalidateVars, computeVars, raceVars, twiceVars>>

RedeleteSpec == RedeleteSpecInit /\ [][RedeleteSpecNext]_vars

\* AsyncDeleter.delete_async
AsyncSpecInit ==
    AsyncInit /\ ScanIdle /\ DupIdle /\ SafetyIdle /\ DeleteIdle
      /\ RedeleteIdle /\ CacheIdle /\ IncIdle /\ HashIdle /\ ParIdle
      /\ MgrIdle /\ StrategyIdle /\ UiIdle /\ RootIdle /\ WalkIdle
      /\ ManagerIdle /\ MonitorIdle /\ ReportIdle /\ InvalidateIdle
      /\ ComputeIdle /\ RaceIdle /\ TwiceIdle

AsyncSpecNext ==
    AsyncNext /\ UNCHANGED <<scanVars, dupVars, safetyVars, deleteVars,
      redelVars, cacheVars, incVars, hashVars, parVars, mgrVars,
      strategyVars, uiVars, rootVars, walkVars, managerVars, monitorVars,
      reportVars, invalidateVars, computeVars, raceVars, twiceVars>>

AsyncSpec == AsyncSpecInit /\ [][AsyncSpecNext]_vars

\* IncrementalCache and CacheManager
CacheSpecInit ==
    CacheInit /\ ScanIdle /\ DupIdle /\ SafetyIdle /\ DeleteIdle
      /\ RedeleteIdle /\ AsyncIdle /\ IncIdle /\ HashIdle /\ ParIdle
      /\ MgrIdle /\ StrategyIdle /\ UiIdle /\ RootIdle /\ WalkIdle
      /\ ManagerIdle /\ MonitorIdle /\ ReportIdle /\ InvalidateIdle
      /\ ComputeIdle /\ RaceIdle /\ TwiceIdle

CacheSpecNext ==
    CacheNext /\ UNCHANGED <<scanVars, dupVars, safetyVars, deleteVars,
      redelVars, asyncVars, incVars, hashVars, parVars, mgrVars,
      strategyVars, uiVars, rootVars, walkVars, managerVars, monitorVars,
      reportVars, invalidateVars, computeVars, raceVars, twiceVars>>

CacheSpec == CacheSpecInit /\ [][CacheSpecNext]_vars

\* DirectoryScanner.scan_incremental
IncSpecInit ==
    IncInit /\ ScanIdle /\ DupIdle /\ SafetyIdle /\ DeleteIdle
      /\ RedeleteIdle /\ AsyncIdle /\ CacheIdle /\ HashIdle /\ ParIdle
      /\ MgrIdle /\ StrategyIdle /\ UiIdle /\ RootIdle /\ WalkIdle
      /\ ManagerIdle /\ MonitorIdle /\ ReportIdle /\ InvalidateIdle
      /\ ComputeIdle /\ RaceIdle /\ TwiceIdle

IncSpecNext ==
    IncNext /\ UNCHANGED <<scanVars, dupVars, safetyVars, deleteVars,
      redelVars, asyncVars, cacheVars, hashVars, parVars, mgrVars,
      strategyVars, uiVars, rootVars, walkVars, managerVars, monitorVars,
      reportVars, invalidateVars, computeVars, raceVars, twiceVars>>

IncSpec == IncSpecInit /\ [][IncSpecNext]_vars

\* HashCache
HashSpecInit ==
    HashInit /\ ScanIdle /\ DupIdle /\ SafetyIdle /\ DeleteIdle
      /\ RedeleteIdle /\ AsyncIdle /\ CacheIdle /\ IncIdle /\ ParIdle
      /\ MgrIdle /\ StrategyIdle /\ UiIdle /\ RootIdle /\ WalkIdle
      /\ ManagerIdle /\ MonitorIdle /\ ReportIdle /\ InvalidateIdle
      /\ ComputeIdle /\ RaceIdle /\ TwiceIdle

HashSpecNext ==
    HashNext /\ UNCHANGED <<scanVars, dupVars, safetyVars, deleteVars,
      redelVars, asyncVars, cacheVars, incVars, parVars, mgrVars,
      strategyVars, uiVars, rootVars, walkVars, managerVars, monitorVars,
      reportVars, invalidateVars, computeVars, raceVars, twiceVars>>

HashSpec == HashSpecInit /\ [][HashSpecNext]_vars

\* ParallelHasher.hash_files_parallel
ParSpecInit ==
    ParInit /\ ScanIdle /\ DupIdle /\ SafetyIdle /\ DeleteIdle
      /\ RedeleteIdle /\ AsyncIdle /\ CacheIdle /\ IncIdle /\ HashIdle
      /\ MgrIdle /\ StrategyIdle /\ UiIdle /\ RootIdle /\ WalkIdle
      /\ ManagerIdle /\ MonitorIdle /\ ReportIdle /\ InvalidateIdle
      /\ ComputeIdle /\ RaceIdle /\ TwiceIdle

ParSpecNext ==
    ParNext /\ UNCHANGED <<scanVars, dupVars, safetyVars, deleteVars,
      redelVars, asyncVars, cacheVars, incVars, hashVars, mgrVars,
      strategyVars, uiVars, rootVars, walkVars, managerVars, monitorVars,
      reportVars, invalidateVars, computeVars, raceVars, twiceVars>>

ParSpec == ParSpecInit /\ [][ParSpecNext]_vars

\* DeletionManager.delete(files, async_mode=True)
MgrSpecInit ==
    MgrInit /\ ScanIdle /\ DupIdle /\ SafetyIdle /\ DeleteIdle
      /\ RedeleteIdle /\ CacheIdle /\ IncIdle /\ HashIdle /\ ParIdle
      /\ StrategyIdle /\ UiIdle /\ RootIdle /\ WalkIdle /\ ManagerIdle
      /\ MonitorIdle /\ ReportIdle /\ InvalidateIdle /\ ComputeIdle
      /\ RaceIdle /\ TwiceIdle

MgrSpecNext ==
    MgrNext /\ UNCHANGED <<scanVars, dupVars, safetyVars, deleteVars,
      redelVars, cacheVars, incVars, hashVars, parVars, strategyVars, uiVars,
      rootVars, walkVars, managerVars, monitorVars, reportVars,
      invalidateVars, computeVars, raceVars, twiceVars>>

MgrSpec == MgrSpecInit /\ [][MgrSpecNext]_vars

\* DeletionManager.delete(files), synchronous mode
StrategySpecInit ==
    StrategyInit /\ ScanIdle /\ DupIdle /\ SafetyIdle /\ AsyncIdle
      /\ CacheIdle /\ IncIdle /\ HashIdle /\ ParIdle /\ MgrIdle /\ UiIdle
      /\ RootIdle /\ WalkIdle /\ ManagerIdle /\ MonitorIdle /\ ReportIdle
      /\ InvalidateIdle /\ ComputeIdle /\ RaceIdle /\ TwiceIdle

StrategySpecNext ==
    StrategyNext /\ UNCHANGED <<scanVars, dupVars, safetyVars, asyncVars,
      cacheVars, incVars, hashVars, parVars, mgrVars, uiVars, rootVars,
      walkVars, managerVars, monitorVars, reportVars, invalidateVars,
      computeVars, raceVars, twiceVars>>

StrategySpec == StrategySpecInit /\ [][StrategySpecNext]_vars

\* InteractiveCleanupUI.confirm_and_cleanup
UiSpecInit ==
    UiInit /\ ScanIdle /\ DupIdle /\ SafetyIdle /\ DeleteIdle
      /\ RedeleteIdle /\ AsyncIdle /\ CacheIdle /\ IncIdle /\ HashIdle
      /\ ParIdle /\ MgrIdle /\ StrategyIdle /\ RootIdle /\ WalkIdle
      /\ ManagerIdle /\ MonitorIdle /\ ReportIdle /\ InvalidateIdle
      /\ ComputeIdle /\ RaceIdle /\ TwiceIdle

UiSpecNext ==
    UiNext /\ UNCHANGED <<scanVars, dupVars, safetyVars, deleteVars,
      redelVars, asyncVars, cacheVars, incVars, hashVars, parVars, mgrVars,
      strategyVars, rootVars, walkVars, managerVars, monitorVars, reportVars,
      invalidateVars, computeVars, raceVars, twiceVars>>

UiSpec == UiSpecInit /\ [][UiSpecNext]_vars

\* ConcurrentScanner.scan, the root excluded or not
RootScanSpecInit ==
    RootScanInit /\ DupIdle /\ SafetyIdle /\ DeleteIdle /\ RedeleteIdle
      /\ AsyncIdle /\ CacheIdle /\ IncIdle /\ HashIdle /\ ParIdle /\ MgrIdle
      /\ StrategyIdle /\ UiIdle /\ WalkIdle /\ ManagerIdle /\ MonitorIdle
      /\ ReportIdle /\ InvalidateIdle /\ ComputeIdle /\ RaceIdle
      /\ TwiceIdle

RootScanSpecNext ==
    RootScanNext /\ UNCHANGED <<dupVars, safetyVars, deleteVars, redelVars,
      asyncVars, cacheVars, incVars, hashVars, parVars, mgrVars,
      strategyVars, uiVars, walkVars, managerVars, monitorVars, reportVars,
      invalidateVars, computeVars, raceVars, twiceVars>>

RootScanSpec == RootScanSpecInit /\ [][RootScanSpecNext]_vars

\* the walk of a tree with symbolic links
WalkSpecInit ==
    WalkInit /\ ScanIdle /\ DupIdle /\ SafetyIdle /\ DeleteIdle
      /\ RedeleteIdle /\ AsyncIdle /\ CacheIdle /\ IncIdle /\ HashIdle
      /\ ParIdle /\ MgrIdle /\ StrategyIdle /\ UiIdle /\ RootIdle
      /\ ManagerIdle /\ MonitorIdle /\ ReportIdle /\ InvalidateIdle
      /\ ComputeIdle /\ RaceIdle /\ TwiceIdle

WalkSpecNext ==
    WalkNext /\ UNCHANGED <<scanVars, dupVars, safetyVars, deleteVars,
      redelVars, asyncVars, cacheVars, incVars, hashVars, parVars, mgrVars,
      strategyVars, uiVars, rootVars, managerVars, monitorVars, reportVars,
      invalidateVars, computeVars, raceVars, twiceVars>>

WalkSpec == WalkSpecInit /\ [][WalkSpecNext]_vars

\* ConcurrencyManager
ManagerSpecInit ==
    ManagerInit /\ ScanIdle /\ DupIdle /\ SafetyIdle /\ DeleteIdle
      /\ RedeleteIdle /\ AsyncIdle /\ CacheIdle /\ IncIdle /\ HashIdle
      /\ ParIdle /\ MgrIdle /\ StrategyIdle /\ UiIdle /\ RootIdle
      /\ WalkIdle /\ MonitorIdle /\ ReportIdle /\ InvalidateIdle
      /\ ComputeIdle /\ RaceIdle /\ TwiceIdle

ManagerSpecNext ==
    ManagerNext /\ UNCHANGED <<scanVars, dupVars, safetyVars, deleteVars,
      redelVars, asyncVars, cacheVars, incVars, hashVars, parVars, mgrVars,
      strategyVars, uiVars, rootVars, walkVars, monitorVars, reportVars,
      invalidateVars, computeVars, raceVars, twiceVars>>

ManagerSpec == ManagerSpecInit /\ [][ManagerSpecNext]_vars

\* MemoryMonitor.get_optimal_workers
MonitorSpecInit ==
    MonitorInit /\ ScanIdle /\ DupIdle /\ SafetyIdle /\ DeleteIdle
      /\ RedeleteIdle /\ AsyncIdle /\ CacheIdle /\ IncIdle /\ HashIdle
      /\ ParIdle /\ MgrIdle /\ StrategyIdle /\ UiIdle /\ RootIdle
      /\ WalkIdle /\ ManagerIdle /\ ReportIdle /\ InvalidateIdle
      /\ ComputeIdle /\ RaceIdle /\ TwiceIdle

MonitorSpecNext ==
    MonitorNext /\ UNCHANGED <<scanVars, dupVars, safetyVars, deleteVars,
      redelVars, asyncVars, cacheVars, incVars, hashVars, parVars, mgrVars,
      strategyVars, uiVars, rootVars, walkVars, managerVars, reportVars,
      invalidateVars, computeVars, raceVars, twiceVars>>

MonitorSpec == MonitorSpecInit /\ [][MonitorSpecNext]_vars

\* the optimized find_duplicates on many candidates
ManySpecInit ==
    ManyInit /\ ScanIdle /\ SafetyIdle /\ DeleteIdle /\ RedeleteIdle
      /\ AsyncIdle /\ CacheIdle /\ IncIdle /\ HashIdle /\ ParIdle /\ MgrIdle
      /\ StrategyIdle /\ UiIdle /\ RootIdle /\ WalkIdle /\ ManagerIdle
      /\ MonitorIdle /\ ReportIdle /\ InvalidateIdle /\ ComputeIdle
      /\ RaceIdle /\ TwiceIdle

ManySpecNext ==
    ManyNext /\ UNCHANGED <<scanVars, safetyVars, deleteVars, redelVars,
      asyncVars, cacheVars, incVars, hashVars, parVars, mgrVars,
      strategyVars, uiVars, rootVars, walkVars, managerVars, monitorVars,
      reportVars, invalidateVars, computeVars, raceVars, twiceVars>>

ManySpec == ManySpecInit /\ [][ManySpecNext]_vars

\* SmartCleanupEngine.analyze
ReportSpecInit ==
    ReportInit /\ ScanIdle /\ DupIdle /\ SafetyIdle /\ DeleteIdle
      /\ RedeleteIdle /\ AsyncIdle /\ CacheIdle /\ IncIdle /\ HashIdle
      /\ ParIdle /\ MgrIdle /\ StrategyIdle /\ UiIdle /\ RootIdle
      /\ WalkIdle /\ ManagerIdle /\ MonitorIdle /\ InvalidateIdle
      /\ ComputeIdle /\ RaceIdle /\ TwiceIdle

ReportSpecNext ==
    ReportNext /\ UNCHANGED <<scanVars, dupVars, safetyVars, deleteVars,
      redelVars, asyncVars, cacheVars, incVars, hashVars, parVars, mgrVars,
      strategyVars, uiVars, rootVars, walkVars, managerVars, monitorVars,
      invalidateVars, computeVars, raceVars, twiceVars>>

ReportSpec == ReportSpecInit /\ [][ReportSpecNext]_vars

\* IncrementalCache with invalidate and clear_all
InvalidateSpecInit ==
    InvalidateInit /\ ScanIdle /\ DupIdle /\ SafetyIdle /\ DeleteIdle
      /\ RedeleteIdle /\ AsyncIdle /\ IncIdle /\ HashIdle /\ ParIdle
      /\ MgrIdle /\ StrategyIdle /\ UiIdle /\ RootIdle /\ WalkIdle
      /\ ManagerIdle /\ MonitorIdle /\ ReportIdle /\ ComputeIdle /\ RaceIdle
      /\ TwiceIdle

InvalidateSpecNext ==
    InvalidateNext /\ UNCHANGED <<scanVars, dupVars, safetyVars, deleteVars,
      redelVars, asyncVars, incVars, hashVars, parVars, mgrVars,
      strategyVars, uiVars, rootVars, walkVars, managerVars, monitorVars,
      reportVars, computeVars, raceVars, twiceVars>>

InvalidateSpec == InvalidateSpecInit /\ [][InvalidateSpecNext]_vars

\* HashCache.get_or_compute step by step
ComputeSpecInit ==
    ComputeInit /\ ScanIdle /\ DupIdle /\ SafetyIdle /\ DeleteIdle
      /\ RedeleteIdle /\ AsyncIdle /\ CacheIdle /\ IncIdle /\ ParIdle
      /\ MgrIdle /\ StrategyIdle /\ UiIdle /\ RootIdle /\ WalkIdle
      /\ ManagerIdle /\ MonitorIdle /\ ReportIdle /\ InvalidateIdle
      /\ RaceIdle /\ TwiceIdle

ComputeSpecNext ==
    ComputeNext /\ UNCHANGED <<scanVars, dupVars, safetyVars, deleteVars,
      redelVars, asyncVars, cacheVars, incVars, parVars, mgrVars,
      strategyVars, uiVars, rootVars, walkVars, managerVars, monitorVars,
      reportVars, invalidateVars, raceVars, twiceVars>>

ComputeSpec == ComputeSpecInit /\ [][ComputeSpecNext]_vars

\* ConcurrentScanner.scan step by step
ReturnSpecInit ==
    ScanInit /\ DupIdle /\ SafetyIdle /\ DeleteIdle /\ RedeleteIdle
      /\ AsyncIdle /\ CacheIdle /\ IncIdle /\ HashIdle /\ ParIdle /\ MgrIdle
      /\ StrategyIdle /\ UiIdle /\ RootIdle /\ WalkIdle /\ ManagerIdle
      /\ MonitorIdle /\ ReportIdle /\ InvalidateIdle /\ ComputeIdle
      /\ RaceIdle /\ TwiceIdle

ReturnSpecNext ==
    ReturnNext /\ UNCHANGED <<dupVars, safetyVars, deleteVars, redelVars,
      asyncVars, cacheVars, incVars, hashVars, parVars, mgrVars,
      strategyVars, uiVars, rootVars, walkVars, managerVars, monitorVars,
      reportVars, invalidateVars, computeVars, raceVars, twiceVars>>

ReturnSpec == ReturnSpecInit /\ [][ReturnSpecNext]_vars

\* ConcurrencyManager.get_thread_pool from several threads
RaceSpecInit ==
    RaceInit /\ ScanIdle /\ DupIdle /\ SafetyIdle /\ DeleteIdle
      /\ RedeleteIdle /\ AsyncIdle /\ CacheIdle /\ IncIdle /\ HashIdle
      /\ ParIdle /\ MgrIdle /\ StrategyIdle /\ UiIdle /\ RootIdle
      /\ WalkIdle /\ MonitorIdle /\ ReportIdle /\ InvalidateIdle
      /\ ComputeIdle /\ TwiceIdle

RaceSpecNext ==
    RaceNext /\ UNCHANGED <<scanVars, dupVars, safetyVars, deleteVars,
      redelVars, asyncVars, cacheVars, incVars, hashVars, parVars, mgrVars,
      strategyVars, uiVars, rootVars, walkVars, monitorVars, reportVars,
      invalidateVars, computeVars, twiceVars>>

RaceSpec == RaceSpecInit /\ [][RaceSpecNext]_vars

\* DirectoryScanner.scan_incremental called twice
TwiceSpecInit ==
    TwiceInit /\ ScanIdle /\ DupIdle /\ SafetyIdle /\ DeleteIdle
      /\ RedeleteIdle /\ AsyncIdle /\ IncIdle /\ HashIdle /\ ParIdle
      /\ MgrIdle /\ StrategyIdle /\ UiIdle /\ RootIdle /\ WalkIdle
      /\ ManagerIdle /\ MonitorIdle /\ ReportIdle /\ InvalidateIdle
      /\ ComputeIdle /\ RaceIdle

TwiceSpecNext ==
    TwiceNext /\ UNCHANGED <<scanVars, dupVars, safetyVars, deleteVars,
      redelVars, asyncVars, incVars, hashVars, parVars, mgrVars,
      strategyVars, uiVars, rootVars, walkVars, managerVars, monitorVars,
      reportVars, invalidateVars, computeVars, raceVars>>

TwiceSpec == TwiceSpecInit /\ [][TwiceSpecNext]_vars

\* hash_files_parallel with every step that can be taken taken in the end
ParFairSpec == ParSpec /\ WF_vars(ParSpecNext)

====
